---- MODULE Spec2Model ----
(***************************************************************************)
(* A model of scripts/build-complete-grants-dataset.ts: the batch pipeline *)
(* that turns monthly IRS filing archives into a bidirectional grants      *)
(* dataset and a network around one central foundation.                    *)
(*                                                                         *)
(* Strings are sequences of one-character strings, so that the string      *)
(* functions of the program (toLowerCase, the regular expressions of       *)
(* normalizeOrgName, startsWith, trim) are computed and not assumed.       *)
(* A JavaScript object used as a map is a sequence of [key, val] entries   *)
(* kept in the order Object.keys / Object.entries enumerates them.         *)
(***************************************************************************)
EXTENDS Integers, Sequences, FiniteSets, TLC

VARIABLES
    pc,             \* position of main()
    customEIN,      \* CUSTOM_EIN (<<>> is null: the default, curated-list mode)
    excelRows,      \* the rows of the curated workbook, as sheet_to_json returns them
    excelReadable,  \* whether xlsx.readFile succeeds
    allGrantsData,  \* main's allGrantsData
    allOrgData,     \* main's allOrgData
    dataset,        \* main's dataset
    network,        \* main's network
    networkFile,    \* the content of HLF_NETWORK_OUTPUT_PATH written by this run
    datasetFile,    \* whether this run has written OUTPUT_PATH
    datasetText,    \* the text streamDatasetToFile wrote to OUTPUT_PATH
    exitCode,       \* the process's exit code once it has ended (-1 while it runs)
    exitCause,      \* what ended the process
    run,            \* the number of this run of the script (the cache outlives a run)
    chunk,          \* the chunk of months main is awaiting (0 before the first)
    mpc,            \* position of each month's task
    archive,        \* the documents of each month's downloaded archive
    cache,          \* <year>_month_<month>.json of CACHE_DIR, per month
    orgCache,       \* <year>_month_<month>_orgs.json of CACHE_DIR, per month
    workdir,        \* the working directories of months that exist
    limiter,        \* the p-limit queue of each month: the files of its batch that wait
                    \* and those whose parse has started and not ended
    dl,             \* a call of downloadFile: its position, the destination file, the
                    \* declared content length
    previous,       \* what the previous run left: the counts of its dataset, the
                    \* records it built the dataset from, the cache entries it ended with
    loop,           \* main's loop over the years and the chunks of the twelve months:
                    \* its position and the state of each month's task
    server          \* the serving endpoint: its in-memory cache, the clock, the bundled
                    \* and the remote copy of the network data, the requests in flight

postVars == <<pc, customEIN, excelRows, excelReadable, allGrantsData, allOrgData,
              dataset, network, networkFile, datasetFile, datasetText, exitCode, exitCause>>

monthVars == <<run, chunk, mpc, archive, cache, orgCache, workdir, dl, limiter, previous, loop, server>>

vars == <<pc, customEIN, excelRows, excelReadable, allGrantsData, allOrgData,
          dataset, network, networkFile, datasetFile, datasetText, exitCode, exitCause,
          run, chunk, mpc, archive, cache, orgCache, workdir, dl, limiter, previous, loop, server>>

-----------------------------------------------------------------------------
(* Strings *)

UpperChars == <<"A","B","C","D","E","F","G","H","I","J","K","L","M",
                "N","O","P","Q","R","S","T","U","V","W","X","Y","Z">>

LowerChars == <<"a","b","c","d","e","f","g","h","i","j","k","l","m",
                "n","o","p","q","r","s","t","u","v","w","x","y","z">>

DigitChars == <<"0","1","2","3","4","5","6","7","8","9">>

Range(s) == { s[i] : i \in DOMAIN s }

IsUpper(c) == c \in Range(UpperChars)
IsLower(c) == c \in Range(LowerChars)
IsDigit(c) == c \in Range(DigitChars)

\* \s of the regular expressions and of trim(), on the characters the model uses
IsSpace(c) == c \in {" ", "\t"}

\* \w of the regular expressions
IsWordChar(c) == IsUpper(c) \/ IsLower(c) \/ IsDigit(c) \/ c = "_"

IndexIn(seq, c) == CHOOSE i \in DOMAIN seq : seq[i] = c

toLowerCase(s) ==
    [i \in DOMAIN s |-> IF IsUpper(s[i]) THEN LowerChars[IndexIn(UpperChars, s[i])] ELSE s[i]]

toUpperCase(s) ==
    [i \in DOMAIN s |-> IF IsLower(s[i]) THEN UpperChars[IndexIn(LowerChars, s[i])] ELSE s[i]]

RECURSIVE TrimLeft(_)
TrimLeft(s) == IF s # <<>> /\ IsSpace(Head(s)) THEN TrimLeft(Tail(s)) ELSE s

RECURSIVE TrimRight(_)
TrimRight(s) ==
    IF s # <<>> /\ IsSpace(s[Len(s)]) THEN TrimRight(SubSeq(s, 1, Len(s) - 1)) ELSE s

trim(s) == TrimRight(TrimLeft(s))

startsWith(s, prefix) ==
    Len(s) >= Len(prefix) /\ SubSeq(s, 1, Len(prefix)) = prefix

\* s.replace(/\s+/g, '_'): every maximal run of white space becomes one underscore
RECURSIVE SpacesToUnderscore(_, _)
SpacesToUnderscore(s, inRun) ==
    IF s = <<>> THEN <<>>
    ELSE IF IsSpace(Head(s))
         THEN (IF inRun THEN <<>> ELSE <<"_">>) \o SpacesToUnderscore(Tail(s), TRUE)
         ELSE <<Head(s)>> \o SpacesToUnderscore(Tail(s), FALSE)

\* s.trim().split(/\s+/).length of a string whose trim is not empty
RECURSIVE WordCount(_, _)
WordCount(s, inWord) ==
    IF s = <<>> THEN 0
    ELSE IF IsSpace(Head(s)) THEN WordCount(Tail(s), FALSE)
         ELSE (IF inWord THEN 0 ELSE 1) + WordCount(Tail(s), TRUE)

RECURSIVE DigitsValue(_, _)
DigitsValue(s, acc) ==
    IF s = <<>> THEN acc
    ELSE DigitsValue(Tail(s), 10 * acc + (IndexIn(DigitChars, Head(s)) - 1))

NO_EIN_ == <<"n","o","_","e","i","n","_">>
UNKNOWN_ == <<"u","n","k","n","o","w","n","_">>
UNKNOWN == <<"u","n","k","n","o","w","n">>
HLF_ID == <<"h","l","f">>
HLF_GRANTEE_ == <<"h","l","f","_","g","r","a","n","t","e","e","_">>
HLF_EIN == <<"3","5","2","3","3","8","4","6","3">>

\* the words normalizeOrgName removes
StopWords == {
    <<"i","n","c">>,
    <<"i","n","c","o","r","p","o","r","a","t","e","d">>,
    <<"l","l","c">>,
    <<"l","t","d">>,
    <<"l","i","m","i","t","e","d">>,
    <<"c","o","r","p">>,
    <<"c","o","r","p","o","r","a","t","i","o","n">>,
    <<"f","o","u","n","d","a","t","i","o","n">>,
    <<"f","u","n","d">>,
    <<"t","r","u","s","t">>,
    <<"t","h","e">>,
    <<"a">>,
    <<"a","n">> }

KeepWord(word) == IF word \in StopWords THEN <<>> ELSE word

\* .replace(/\b(inc|...|an)\b/g, ''): a maximal run of \w characters that is one of
\* the stop words is removed; everything else is kept
RECURSIVE StripStopWords(_, _, _)
StripStopWords(s, word, out) ==
    IF s = <<>> THEN out \o KeepWord(word)
    ELSE IF IsWordChar(Head(s))
         THEN StripStopWords(Tail(s), Append(word, Head(s)), out)
         ELSE StripStopWords(Tail(s), <<>>, (out \o KeepWord(word)) \o <<Head(s)>>)

IsLowerAlnum(c) == IsLower(c) \/ IsDigit(c)

normalizeOrgName(name) ==
    trim(SelectSeq(StripStopWords(toLowerCase(name), <<>>, <<>>), IsLowerAlnum))

-----------------------------------------------------------------------------
(* JavaScript objects used as maps: Object.keys enumerates the keys that are *)
(* array indices in ascending numeric order, then the other keys in the      *)
(* order they were created.                                                  *)

IsArrayIndex(k) ==
    /\ k # <<>>
    /\ \A i \in DOMAIN k : IsDigit(k[i])
    /\ (Len(k) = 1 \/ k[1] # "0")

ObjKeys(obj) == [i \in DOMAIN obj |-> obj[i].key]

ObjHas(obj, k) == \E i \in DOMAIN obj : obj[i].key = k

ObjGet(obj, k) == obj[CHOOSE i \in DOMAIN obj : obj[i].key = k].val

\* the position a new key takes in the enumeration order
InsertPos(obj, k) ==
    IF IsArrayIndex(k)
    THEN LET later == { i \in DOMAIN obj :
                          \/ ~IsArrayIndex(obj[i].key)
                          \/ DigitsValue(obj[i].key, 0) > DigitsValue(k, 0) }
         IN  IF later = {} THEN Len(obj) + 1
             ELSE CHOOSE i \in later : \A j \in later : i <= j
    ELSE Len(obj) + 1

\* obj[k] = v
ObjPut(obj, k, v) ==
    IF ObjHas(obj, k)
    THEN [i \in DOMAIN obj |-> IF obj[i].key = k THEN [key |-> k, val |-> v] ELSE obj[i]]
    ELSE LET p == InsertPos(obj, k)
         IN  SubSeq(obj, 1, p - 1) \o <<[key |-> k, val |-> v]>> \o SubSeq(obj, p, Len(obj))

\* delete obj[k]
ObjDelete(obj, k) == SelectSeq(obj, LAMBDA e : e.key # k)

-----------------------------------------------------------------------------
(* Map objects (new Map()): entries in insertion order *)

MapHas(m, k) == \E i \in DOMAIN m : m[i].key = k

MapGet(m, k) == m[CHOOSE i \in DOMAIN m : m[i].key = k].val

\* if (!m.has(k)) m.set(k, []); m.get(k).push(v)
MapPush(m, k, v) ==
    IF MapHas(m, k)
    THEN [i \in DOMAIN m |->
            IF m[i].key = k THEN [key |-> k, val |-> Append(m[i].val, v)] ELSE m[i]]
    ELSE Append(m, [key |-> k, val |-> <<v>>])

-----------------------------------------------------------------------------
(* Dataset Builder *)

\* metadata that is undefined
NoMeta == [present |-> FALSE, city |-> <<>>, state |-> <<>>]

EmptyDataset ==
    [foundations |-> <<>>, organizations |-> <<>>,
     metadata |-> [foundationsProcessed |-> 0, totalGrants |-> 0]]

\* a variant of RecipientKey that takes every recipient tax ID that is not empty
RecipientKeyOfAnyID(grant) ==
    IF grant.recipientEIN = <<>>
    THEN NO_EIN_ \o normalizeOrgName(grant.recipientName)
    ELSE grant.recipientEIN

\* the Organization key of a grant's recipient
RecipientKey(grant) ==
    IF grant.recipientEIN = <<>> \/ startsWith(grant.recipientEIN, UNKNOWN_)
    THEN NO_EIN_ \o normalizeOrgName(grant.recipientName)
    ELSE grant.recipientEIN

\* the body of the loop over a record's grants
AddGrantReceived(orgs, funderEIN, funderName, grant) ==
    LET k == RecipientKey(grant)
        base == IF ObjHas(orgs, k) THEN orgs
                ELSE ObjPut(orgs, k, [ein |-> k, name |-> grant.recipientName,
                                      grantsReceived |-> <<>>, metadata |-> NoMeta])
        o == ObjGet(base, k)
    IN  ObjPut(base, k,
               [o EXCEPT !.grantsReceived =
                   Append(@, [funderEIN |-> funderEIN, funderName |-> funderName,
                              amount |-> grant.amount, year |-> grant.year])])

RECURSIVE AddGrantsReceived(_, _, _, _)
AddGrantsReceived(orgs, funderEIN, funderName, grants) ==
    IF grants = <<>> THEN orgs
    ELSE AddGrantsReceived(AddGrantReceived(orgs, funderEIN, funderName, Head(grants)),
                           funderEIN, funderName, Tail(grants))

\* a variant of AddRecord that counts the grants of a record only when the record
\* creates its foundation
AddRecordCountingNewOnly(ds, rec) ==
    IF rec.funderEIN = <<>> THEN ds
    ELSE LET isNew == ~ObjHas(ds.foundations, rec.funderEIN)
             fs == IF isNew
                   THEN ObjPut(ds.foundations, rec.funderEIN,
                               [ein |-> rec.funderEIN, name |-> rec.funderName,
                                grantsGiven |-> <<>>, metadata |-> rec.metadata])
                   ELSE ds.foundations
             f == ObjGet(fs, rec.funderEIN)
         IN  [foundations |-> ObjPut(fs, rec.funderEIN,
                                     [f EXCEPT !.grantsGiven = @ \o rec.grants]),
              organizations |-> AddGrantsReceived(ds.organizations, rec.funderEIN,
                                                  rec.funderName, rec.grants),
              metadata |-> [ds.metadata EXCEPT
                              !.totalGrants = IF isNew THEN @ + Len(rec.grants) ELSE @]]

\* the body of the loop over allGrantsData; metadata.totalGrants holds the running
\* local totalGrants
AddRecord(ds, rec) ==
    IF rec.funderEIN = <<>> THEN ds
    ELSE LET fs == IF ObjHas(ds.foundations, rec.funderEIN) THEN ds.foundations
                   ELSE ObjPut(ds.foundations, rec.funderEIN,
                               [ein |-> rec.funderEIN, name |-> rec.funderName,
                                grantsGiven |-> <<>>, metadata |-> rec.metadata])
             f == ObjGet(fs, rec.funderEIN)
         IN  [foundations |-> ObjPut(fs, rec.funderEIN,
                                     [f EXCEPT !.grantsGiven = @ \o rec.grants]),
              organizations |-> AddGrantsReceived(ds.organizations, rec.funderEIN,
                                                  rec.funderName, rec.grants),
              metadata |-> [ds.metadata EXCEPT !.totalGrants = @ + Len(rec.grants)]]

\* a variant of AddRecords that takes the records from the last to the first
RECURSIVE AddRecordsLastFirst(_, _)
AddRecordsLastFirst(ds, recs) ==
    IF recs = <<>> THEN ds
    ELSE AddRecord(AddRecordsLastFirst(ds, Tail(recs)), Head(recs))

\* the loop over allGrantsData
RECURSIVE AddRecords(_, _)
AddRecords(ds, recs) ==
    IF recs = <<>> THEN ds ELSE AddRecords(AddRecord(ds, Head(recs)), Tail(recs))

buildBidirectionalDataset(grantsData) ==
    LET ds == AddRecords(EmptyDataset, grantsData)
    IN  [ds EXCEPT !.metadata.foundationsProcessed = Len(ds.foundations)]

\* a variant of MergeOrgRecord that takes the metadata of every record
MergeOrgRecordOverwriting(orgs, org) ==
    IF org.ein = <<>> THEN orgs
    ELSE IF ~ObjHas(orgs, org.ein)
         THEN ObjPut(orgs, org.ein, [ein |-> org.ein, name |-> org.name,
                                     grantsReceived |-> <<>>, metadata |-> org.metadata])
         ELSE ObjPut(orgs, org.ein, [ObjGet(orgs, org.ein) EXCEPT !.metadata = org.metadata])

\* the body of the loop that merges the Form 990 records into the organizations
MergeOrgRecord(orgs, org) ==
    IF org.ein = <<>> THEN orgs
    ELSE IF ~ObjHas(orgs, org.ein)
         THEN ObjPut(orgs, org.ein, [ein |-> org.ein, name |-> org.name,
                                     grantsReceived |-> <<>>, metadata |-> org.metadata])
         ELSE LET o == ObjGet(orgs, org.ein)
              IN  IF ~o.metadata.present
                  THEN ObjPut(orgs, org.ein, [o EXCEPT !.metadata = org.metadata])
                  ELSE orgs

RECURSIVE MergeOrgRecords(_, _)
MergeOrgRecords(orgs, recs) ==
    IF recs = <<>> THEN orgs
    ELSE MergeOrgRecords(MergeOrgRecord(orgs, Head(recs)), Tail(recs))

RECURSIVE IndexOrganizations(_, _)
IndexOrganizations(entries, nameIndex) ==
    IF entries = <<>> THEN nameIndex
    ELSE IndexOrganizations(Tail(entries),
             MapPush(nameIndex, normalizeOrgName(Head(entries).val.name), Head(entries).key))

buildNameToEINIndex(ds) == IndexOrganizations(ds.organizations, <<>>)

IsPlaceholderKey(k) == startsWith(k, NO_EIN_)

\* matches.find(ein => !ein.startsWith('no_ein_')); <<>> is undefined
FirstRealEIN(matches) ==
    LET real == SelectSeq(matches, LAMBDA e : ~IsPlaceholderKey(e))
    IN  IF real = <<>> THEN <<>> ELSE Head(real)

\* a variant of MergePlaceholder that deletes the placeholder without moving its
\* grants
MergePlaceholderDroppingGrants(orgs, realEIN, placeholderKey) ==
    ObjDelete(orgs, placeholderKey)

\* merge the grants of the placeholder into the real entry, delete the placeholder
MergePlaceholder(orgs, realEIN, placeholderKey) ==
    LET org == ObjGet(orgs, placeholderKey)
        merged == IF ObjHas(orgs, realEIN)
                  THEN LET r == ObjGet(orgs, realEIN)
                       IN  ObjPut(orgs, realEIN,
                                  [r EXCEPT !.grantsReceived = @ \o org.grantsReceived])
                  ELSE orgs
    IN  ObjDelete(merged, placeholderKey)

\* the body of the loop over placeholderKeys
ConsolidateOne(orgs, nameIndex, placeholderKey) ==
    LET org == ObjGet(orgs, placeholderKey)
        normalizedName == normalizeOrgName(org.name)
    IN  IF MapHas(nameIndex, normalizedName) /\ MapGet(nameIndex, normalizedName) # <<>>
        THEN LET realEIN == FirstRealEIN(MapGet(nameIndex, normalizedName))
             IN  IF realEIN # <<>> /\ realEIN # placeholderKey
                 THEN MergePlaceholder(orgs, realEIN, placeholderKey)
                 ELSE orgs
        ELSE orgs

RECURSIVE ConsolidateAll(_, _, _)
ConsolidateAll(orgs, nameIndex, placeholderKeys) ==
    IF placeholderKeys = <<>> THEN orgs
    ELSE ConsolidateAll(ConsolidateOne(orgs, nameIndex, Head(placeholderKeys)),
                        nameIndex, Tail(placeholderKeys))

\* the consolidation pass of main
Consolidated(ds) ==
    [ds EXCEPT !.organizations =
        ConsolidateAll(ds.organizations, buildNameToEINIndex(ds),
                       SelectSeq(ObjKeys(ds.organizations), IsPlaceholderKey))]

-----------------------------------------------------------------------------
(* Curated list of the default central entity *)

SheetYears == <<2020, 2021, 2022, 2023, 2024, 2025>>

DISCRETIONARY_GRANTS ==
    <<"D","i","s","c","r","e","t","i","o","n","a","r","y"," ","G","r","a","n","t","s">>

MINI_GRANTS ==
    <<"M","i","n","i"," ","g","r","a","n","t","s"," ","f","o","r"," ",
      "S","t","o","r","y","t","e","l","l","i","n","g">>

SingleNameLimit == 10000

\* the filter of loadHLFGrantsFromExcel; a row's amount is the number in its amount
\* cell, 0 when the cell is empty
KeepRow(row) ==
    /\ row.Organization # <<>>
    /\ row.amount # 0
    /\ row.Organization # DISCRETIONARY_GRANTS
    /\ row.Organization # MINI_GRANTS
    /\ ~(WordCount(row.Organization, FALSE) <= 1 /\ row.amount <= SingleNameLimit)

RECURSIVE LoadSheets(_, _)
LoadSheets(rows, years) ==
    IF years = <<>> THEN <<>>
    ELSE LET sheet == SelectSeq(rows, LAMBDA r : r.sheet = Head(years) /\ KeepRow(r))
         IN  [i \in DOMAIN sheet |-> [organization |-> sheet[i].Organization,
                                      amount |-> sheet[i].amount,
                                      year |-> Head(years)]]
             \o LoadSheets(rows, Tail(years))

loadHLFGrantsFromExcel(rows) == LoadSheets(rows, SheetYears)

-----------------------------------------------------------------------------
(* Network Builder. A node keeps id, name, type and central; the fields a node *)
(* only carries for display (amount, metadata, grantsReceived, grantsGiven)    *)
(* are copies of dataset values that the builders never read back.             *)

EmptyNetwork == [nodes |-> <<>>, links |-> <<>>]

Link(source, target, grant, type) ==
    [source |-> source, target |-> target, amount |-> grant.amount,
     year |-> grant.year, type |-> type]

\* one link per grant, from the central node to the grantee
GrantLinks(centralId, granteeId, grants) ==
    [i \in DOMAIN grants |-> Link(centralId, granteeId, grants[i], "hlf-grant")]

\* a variant of AddOtherFunder whose link runs from the grantee to the funder
AddOtherFunderReversed(st, granteeId, received, skipEIN) ==
    IF received.funderEIN = skipEIN THEN st
    ELSE [nodes |-> IF received.funderEIN \in st.addedNodes THEN st.nodes
                    ELSE Append(st.nodes, [id |-> received.funderEIN,
                                           name |-> received.funderName,
                                           type |-> "funder", central |-> FALSE]),
          links |-> Append(st.links,
                           Link(granteeId, received.funderEIN, received, "other-funder")),
          addedNodes |-> st.addedNodes \cup {received.funderEIN}]

\* the body of the loop over a grantee's grantsReceived: a node for the funder if it
\* has none yet, and a link from the funder to the grantee
AddOtherFunder(st, granteeId, received, skipEIN) ==
    IF received.funderEIN = skipEIN THEN st
    ELSE [nodes |-> IF received.funderEIN \in st.addedNodes THEN st.nodes
                    ELSE Append(st.nodes, [id |-> received.funderEIN,
                                           name |-> received.funderName,
                                           type |-> "funder", central |-> FALSE]),
          links |-> Append(st.links,
                           Link(received.funderEIN, granteeId, received, "other-funder")),
          addedNodes |-> st.addedNodes \cup {received.funderEIN}]

\* a variant of AddOtherFunders that does not skip the entries of the central entity
RECURSIVE AddOtherFundersOfAnyFunder(_, _, _, _)
AddOtherFundersOfAnyFunder(st, granteeId, grantsReceived, skipEIN) ==
    IF grantsReceived = <<>> THEN st
    ELSE AddOtherFundersOfAnyFunder(
             AddOtherFunder(st, granteeId, Head(grantsReceived), <<>>),
             granteeId, Tail(grantsReceived), skipEIN)

\* the loop over a grantee's grantsReceived
RECURSIVE AddOtherFunders(_, _, _, _)
AddOtherFunders(st, granteeId, grantsReceived, skipEIN) ==
    IF grantsReceived = <<>> THEN st
    ELSE AddOtherFunders(AddOtherFunder(st, granteeId, Head(grantsReceived), skipEIN),
                         granteeId, Tail(grantsReceived), skipEIN)

(* override-identity mode: buildCustomEINNetwork *)

\* the address disambiguation among several name matches
BestMatch(ds, matches, grant) ==
    IF grant.recipientCity # <<>> /\ grant.recipientState # <<>>
    THEN LET hits == SelectSeq(matches, LAMBDA c :
                        LET org == ObjGet(ds.organizations, c)
                        IN  /\ org.metadata.present
                            /\ toUpperCase(org.metadata.city) = toUpperCase(grant.recipientCity)
                            /\ toUpperCase(org.metadata.state) = toUpperCase(grant.recipientState))
         IN  IF hits = <<>> THEN matches[1] ELSE hits[1]
    ELSE matches[1]

HasNoUsableEIN(ein) == ein = <<>> \/ ein = UNKNOWN \/ startsWith(ein, UNKNOWN_)

\* the id a central grant is grouped under
ResolveRecipient(ds, nameIndex, grant) ==
    IF HasNoUsableEIN(grant.recipientEIN)
    THEN LET normalizedName == normalizeOrgName(grant.recipientName)
             matches == IF MapHas(nameIndex, normalizedName)
                        THEN MapGet(nameIndex, normalizedName) ELSE <<>>
         IN  IF Len(matches) = 1 THEN matches[1]
             ELSE IF Len(matches) > 1 THEN BestMatch(ds, matches, grant)
             ELSE NO_EIN_ \o normalizedName
    ELSE grant.recipientEIN

RECURSIVE GroupByRecipient(_, _, _, _)
GroupByRecipient(ds, nameIndex, grants, grantsByRecipient) ==
    IF grants = <<>> THEN grantsByRecipient
    ELSE GroupByRecipient(ds, nameIndex, Tail(grants),
             MapPush(grantsByRecipient, ResolveRecipient(ds, nameIndex, Head(grants)),
                     Head(grants)))

\* a variant of CentralNode that leaves the central flag out
CentralNodeUnflagged(id, name) ==
    [id |-> id, name |-> name, type |-> "funder", central |-> FALSE]

CentralNode(id, name) ==
    [id |-> id, name |-> name, type |-> "funder", central |-> TRUE]

\* the body of the loop over grantsByRecipient
AddCustomGrantee(st, ds, centralEIN, entry) ==
    LET recipientEIN == entry.key
        grants == entry.val
        known == ObjHas(ds.organizations, recipientEIN)
        orgName == IF known THEN ObjGet(ds.organizations, recipientEIN).name ELSE <<>>
        withNode ==
            IF recipientEIN \in st.addedNodes THEN st
            ELSE [st EXCEPT
                    !.nodes = Append(@, [id |-> recipientEIN,
                                         name |-> IF orgName # <<>> THEN orgName
                                                  ELSE grants[1].recipientName,
                                         type |-> "grantee", central |-> FALSE]),
                    !.addedNodes = @ \cup {recipientEIN}]
        withLinks == [withNode EXCEPT
                        !.links = @ \o GrantLinks(centralEIN, recipientEIN, grants)]
    IN  IF known
        THEN AddOtherFunders(withLinks, recipientEIN,
                             ObjGet(ds.organizations, recipientEIN).grantsReceived,
                             centralEIN)
        ELSE withLinks

RECURSIVE AddCustomGrantees(_, _, _, _)
AddCustomGrantees(st, ds, centralEIN, entries) ==
    IF entries = <<>> THEN st
    ELSE AddCustomGrantees(AddCustomGrantee(st, ds, centralEIN, Head(entries)),
                           ds, centralEIN, Tail(entries))

\* the grants of the central foundation grouped by resolved recipient
CustomGrantsByRecipient(ds, centralEIN) ==
    GroupByRecipient(ds, buildNameToEINIndex(ds),
                     ObjGet(ds.foundations, centralEIN).grantsGiven, <<>>)

\* defined when centralEIN is a key of ds.foundations
buildCustomEINNetwork(ds, centralEIN) ==
    LET centralFoundation == ObjGet(ds.foundations, centralEIN)
        st0 == [nodes |-> <<CentralNode(centralEIN, centralFoundation.name)>>,
                links |-> <<>>, addedNodes |-> {centralEIN}]
        st == AddCustomGrantees(st0, ds, centralEIN,
                                CustomGrantsByRecipient(ds, centralEIN))
    IN  [nodes |-> st.nodes, links |-> st.links]

(* default mode: buildHLFNetwork *)

HLF_NAME ==
    <<"H","i","d","d","e","n"," ","L","e","a","f"," ",
      "F","o","u","n","d","a","t","i","o","n">>

\* name.toLowerCase().trim(), the name comparison of buildHLFNetwork
LowerTrim(name) == trim(toLowerCase(name))

RECURSIVE GroupByLowerName(_, _)
GroupByLowerName(grants, byOrg) ==
    IF grants = <<>> THEN byOrg
    ELSE GroupByLowerName(Tail(grants),
             MapPush(byOrg, LowerTrim(Head(grants).organization),
                     [amount |-> Head(grants).amount, year |-> Head(grants).year]))

\* a curated grant whose name is the name of an organization of the dataset
FoundInDataset(ds, hlfGrant) ==
    \E i \in DOMAIN ds.organizations :
        LowerTrim(ds.organizations[i].val.name) = LowerTrim(hlfGrant.organization)

UnmatchedGrantees(ds, allHLFGrantees) ==
    SelectSeq(allHLFGrantees, LAMBDA g : ~FoundInDataset(ds, g))

\* the id minted for a curated grantee that is not in the dataset
HLFGranteeId(normalizedName) == HLF_GRANTEE_ \o SpacesToUnderscore(normalizedName, FALSE)

\* the body of the loop over unmatchedByOrg
AddUnmatchedGrantee(st, unmatchedGrantees, entry) ==
    LET granteeId == HLFGranteeId(entry.key)
        original == SelectSeq(unmatchedGrantees,
                              LAMBDA g : LowerTrim(g.organization) = entry.key)
    IN  [nodes |-> Append(st.nodes, [id |-> granteeId, name |-> original[1].organization,
                                     type |-> "grantee", central |-> FALSE]),
         links |-> st.links \o GrantLinks(HLF_ID, granteeId, entry.val),
         addedNodes |-> st.addedNodes \cup {granteeId}]

RECURSIVE AddUnmatchedGrantees(_, _, _)
AddUnmatchedGrantees(st, unmatchedGrantees, entries) ==
    IF entries = <<>> THEN st
    ELSE AddUnmatchedGrantees(AddUnmatchedGrantee(st, unmatchedGrantees, Head(entries)),
                              unmatchedGrantees, Tail(entries))

\* the body of the loop over Object.entries(dataset.organizations)
AddMatchedGrantee(st, hlfGrantsByOrg, entry) ==
    LET orgEIN == entry.key
        org == entry.val
        normalizedName == LowerTrim(org.name)
    IN  IF MapHas(hlfGrantsByOrg, normalizedName)
        THEN LET hlfGrants == MapGet(hlfGrantsByOrg, normalizedName)
                 withNode ==
                     IF orgEIN \in st.addedNodes THEN st
                     ELSE [st EXCEPT
                             !.nodes = Append(@, [id |-> orgEIN, name |-> org.name,
                                                  type |-> "grantee", central |-> FALSE]),
                             !.addedNodes = @ \cup {orgEIN}]
                 withLinks == [withNode EXCEPT
                                 !.links = @ \o GrantLinks(HLF_ID, orgEIN, hlfGrants)]
             IN  AddOtherFunders(withLinks, orgEIN, org.grantsReceived, HLF_EIN)
        ELSE st

RECURSIVE AddMatchedGrantees(_, _, _)
AddMatchedGrantees(st, hlfGrantsByOrg, entries) ==
    IF entries = <<>> THEN st
    ELSE AddMatchedGrantees(AddMatchedGrantee(st, hlfGrantsByOrg, Head(entries)),
                            hlfGrantsByOrg, Tail(entries))

\* defined when the curated workbook is readable; rows are its rows
buildHLFNetwork(ds, rows) ==
    LET allHLFGrantees == loadHLFGrantsFromExcel(rows)
        hlfGrantsByOrg == GroupByLowerName(allHLFGrantees, <<>>)
        unmatchedGrantees == UnmatchedGrantees(ds, allHLFGrantees)
        unmatchedByOrg == GroupByLowerName(unmatchedGrantees, <<>>)
        st0 == [nodes |-> <<CentralNode(HLF_ID, HLF_NAME)>>, links |-> <<>>,
                addedNodes |-> {HLF_ID}]
        st1 == AddUnmatchedGrantees(st0, unmatchedGrantees, unmatchedByOrg)
        st2 == AddMatchedGrantees(st1, hlfGrantsByOrg, ds.organizations)
    IN  [nodes |-> st2.nodes, links |-> st2.links]

-----------------------------------------------------------------------------
(* Dataset Serializer: the text streamDatasetToFile writes, as a sequence of *)
(* characters and of the texts JSON.stringify returns, and JSON.parse of it  *)

\* the characters of a template literal
Chars(s) == [i \in DOMAIN s |-> [c |-> s[i]]]

\* JSON.stringify(value): one element of the text, which JSON.parse reads back as the
\* value (the values are strings, finite numbers, arrays and plain objects; a
\* property that is undefined is left out and is undefined again after the parse)
JSONstringify(value) == <<[c |-> "VALUE", v |-> value]>>

K_foundations == <<"f","o","u","n","d","a","t","i","o","n","s">>
K_organizations == <<"o","r","g","a","n","i","z","a","t","i","o","n","s">>
K_metadata == <<"m","e","t","a","d","a","t","a">>

\* `"${key}": ${JSON.stringify(value)}${comma}\n` of the entry at position index
\* (counted from 1): the key is written as it is
WriteEntry(obj, index) ==
    LET comma == IF index - 1 < Len(obj) - 1 THEN <<",">> ELSE <<>>
    IN  Chars(<<"\"">> \o obj[index].key \o <<"\"", ":", " ">>)
          \o JSONstringify(obj[index].val) \o Chars(comma \o <<"\n">>)

RECURSIVE WriteEntries(_, _)
WriteEntries(obj, index) ==
    IF index > Len(obj) THEN <<>>
    ELSE WriteEntry(obj, index) \o WriteEntries(obj, index + 1)

\* the text of OUTPUT_PATH
streamDatasetToFile(ds) ==
    Chars(<<"{", "\n">>)
      \o Chars(<<"\"">> \o K_foundations \o <<"\"", ":", " ", "{", "\n">>)
      \o WriteEntries(ds.foundations, 1)
      \o Chars(<<"}", ",", "\n">>)
      \o Chars(<<"\"">> \o K_organizations \o <<"\"", ":", " ", "{", "\n">>)
      \o WriteEntries(ds.organizations, 1)
      \o Chars(<<"}", ",", "\n">>)
      \o Chars(<<"\"">> \o K_metadata \o <<"\"", ":", " ">>)
      \o JSONstringify(ds.metadata) \o Chars(<<"\n">>)
      \o Chars(<<"}", "\n">>)

\* JSON.parse, for texts made of objects, strings as keys and stringified values

At(text, pos) == IF pos \in DOMAIN text THEN text[pos].c ELSE "EOF"

SyntaxError == [ok |-> FALSE, val |-> <<>>, pos |-> 0]
Parsed(val, pos) == [ok |-> TRUE, val |-> val, pos |-> pos]

JSONWhitespace == {" ", "\n", "\t", "\r"}

RECURSIVE SkipWhitespace(_, _)
SkipWhitespace(text, pos) ==
    IF At(text, pos) \in JSONWhitespace THEN SkipWhitespace(text, pos + 1) ELSE pos

\* the characters a backslash may be followed by, and what the pair stands for
Escapes == [c \in {"\"", "\\", "/", "b", "f", "n", "r", "t"} |->
              CASE c = "b" -> "U+0008" [] c = "f" -> "\f" [] c = "n" -> "\n"
                [] c = "r" -> "\r" [] c = "t" -> "\t" [] OTHER -> c]

\* the characters of a string up to its closing quote; pos is behind the opening quote
RECURSIVE ParseStringBody(_, _, _)
ParseStringBody(text, pos, acc) ==
    LET c == At(text, pos)
    IN  IF c = "\"" THEN Parsed(acc, pos + 1)
        ELSE IF c \in {"EOF", "VALUE", "\n", "\t", "\r", "\f", "U+0008"} THEN SyntaxError
        ELSE IF c = "\\"
             THEN IF At(text, pos + 1) \in DOMAIN Escapes
                  THEN ParseStringBody(text, pos + 2,
                                       Append(acc, Escapes[At(text, pos + 1)]))
                  ELSE SyntaxError
        ELSE ParseStringBody(text, pos + 1, Append(acc, c))

RECURSIVE ParseValue(_, _)
RECURSIVE ParseMembers(_, _, _)

\* "key": value, then a comma and another member, or the closing brace
ParseMembers(text, pos, obj) ==
    IF At(text, pos) # "\"" THEN SyntaxError
    ELSE LET key == ParseStringBody(text, pos + 1, <<>>)
         IN  IF ~key.ok THEN SyntaxError
             ELSE LET colon == SkipWhitespace(text, key.pos)
                  IN  IF At(text, colon) # ":" THEN SyntaxError
                      ELSE LET value == ParseValue(text, colon + 1)
                           IN  IF ~value.ok THEN SyntaxError
                               ELSE LET next == SkipWhitespace(text, value.pos)
                                        members == ObjPut(obj, key.val, value.val)
                                    IN  IF At(text, next) = "}"
                                        THEN Parsed(members, next + 1)
                                        ELSE IF At(text, next) = ","
                                        THEN ParseMembers(text,
                                                 SkipWhitespace(text, next + 1), members)
                                        ELSE SyntaxError

ParseValue(text, pos) ==
    LET start == SkipWhitespace(text, pos)
    IN  IF At(text, start) = "VALUE" THEN Parsed(text[start].v, start + 1)
        ELSE IF At(text, start) = "{"
             THEN LET first == SkipWhitespace(text, start + 1)
                  IN  IF At(text, first) = "}" THEN Parsed(<<>>, first + 1)
                      ELSE ParseMembers(text, first, <<>>)
        ELSE SyntaxError

JSONparse(text) ==
    LET value == ParseValue(text, 1)
    IN  IF value.ok /\ SkipWhitespace(text, value.pos) = Len(text) + 1
        THEN value ELSE SyntaxError

-----------------------------------------------------------------------------
(* main, after the loop over years and months *)

PROCESS_990 == TRUE

\* a variant of BuildDataset that serializes the dataset as soon as it is built
BuildDatasetAndWriteIt ==
    /\ pc = "build"
    /\ dataset' = buildBidirectionalDataset(allGrantsData)
    /\ datasetFile' = "written"
    /\ pc' = "merge"
    /\ UNCHANGED <<customEIN, excelRows, excelReadable, allGrantsData, allOrgData,
                   network, networkFile, datasetText, exitCode, exitCause>>
    /\ UNCHANGED monthVars

\* const dataset = buildBidirectionalDataset(allGrantsData)
BuildDataset ==
    /\ pc = "build"
    /\ dataset' = buildBidirectionalDataset(allGrantsData)
    /\ pc' = "merge"
    /\ UNCHANGED <<customEIN, excelRows, excelReadable, allGrantsData, allOrgData,
                   network, networkFile, datasetFile, datasetText, exitCode, exitCause>>
    /\ UNCHANGED monthVars

\* the merge of the Form 990 records, when there are any
Merge990 ==
    /\ pc = "merge"
    /\ PROCESS_990 /\ allOrgData # <<>>
    /\ dataset' = [dataset EXCEPT
                     !.organizations = MergeOrgRecords(@, allOrgData)]
    /\ pc' = "consolidate"
    /\ UNCHANGED <<customEIN, excelRows, excelReadable, allGrantsData, allOrgData,
                   network, networkFile, datasetFile, datasetText, exitCode, exitCause>>
    /\ UNCHANGED monthVars

\* the consolidation pass, which is part of the block that merges the Form 990 records
Consolidate ==
    /\ pc = "consolidate"
    /\ dataset' = Consolidated(dataset)
    /\ pc' = "network"
    /\ UNCHANGED <<customEIN, excelRows, excelReadable, allGrantsData, allOrgData,
                   network, networkFile, datasetFile, datasetText, exitCode, exitCause>>
    /\ UNCHANGED monthVars

\* no Form 990 record: the whole block, consolidation included, is skipped
SkipMerge990 ==
    /\ pc = "merge"
    /\ ~(PROCESS_990 /\ allOrgData # <<>>)
    /\ pc' = "network"
    /\ UNCHANGED <<customEIN, excelRows, excelReadable, allGrantsData, allOrgData,
                   dataset, network, networkFile, datasetFile, datasetText, exitCode, exitCause>>
    /\ UNCHANGED monthVars

\* whether the Network Builder finds its required input
NetworkInputPresent ==
    IF customEIN # <<>> THEN ObjHas(dataset.foundations, customEIN) ELSE excelReadable

BuildCustomNetwork ==
    /\ pc = "network"
    /\ customEIN # <<>>
    /\ ObjHas(dataset.foundations, customEIN)
    /\ network' = buildCustomEINNetwork(dataset, customEIN)
    /\ pc' = "writeNetwork"
    /\ UNCHANGED <<customEIN, excelRows, excelReadable, allGrantsData, allOrgData,
                   dataset, networkFile, datasetFile, datasetText, exitCode, exitCause>>
    /\ UNCHANGED monthVars

BuildDefaultNetwork ==
    /\ pc = "network"
    /\ customEIN = <<>>
    /\ excelReadable
    /\ network' = buildHLFNetwork(dataset, excelRows)
    /\ pc' = "writeNetwork"
    /\ UNCHANGED <<customEIN, excelRows, excelReadable, allGrantsData, allOrgData,
                   dataset, networkFile, datasetFile, datasetText, exitCode, exitCause>>
    /\ UNCHANGED monthVars

\* the builder throws; main().catch logs and calls process.exit(1)
NetworkInputMissing ==
    /\ pc = "network"
    /\ ~NetworkInputPresent
    /\ pc' = "exited"
    /\ exitCode' = 1
    /\ exitCause' = "network-input"
    /\ UNCHANGED <<customEIN, excelRows, excelReadable, allGrantsData, allOrgData,
                   dataset, network, networkFile, datasetFile, datasetText>>
    /\ UNCHANGED monthVars

\* streamHLFNetworkToFile
WriteNetwork ==
    /\ pc = "writeNetwork"
    /\ networkFile' = "written"
    /\ pc' = "writeDataset"
    /\ UNCHANGED <<customEIN, excelRows, excelReadable, allGrantsData, allOrgData,
                   dataset, network, datasetFile, datasetText, exitCode, exitCause>>
    /\ UNCHANGED monthVars

\* streamDatasetToFile, and the end of main
WriteDataset ==
    /\ pc = "writeDataset"
    /\ datasetFile' = "written"
    /\ datasetText' = streamDatasetToFile(dataset)
    /\ pc' = "done"
    /\ exitCode' = 0
    /\ exitCause' = "end"
    /\ UNCHANGED <<customEIN, excelRows, excelReadable, allGrantsData, allOrgData,
                   dataset, network, networkFile>>
    /\ UNCHANGED monthVars

NextPost ==
    \/ BuildDataset
    \/ Merge990
    \/ Consolidate
    \/ SkipMerge990
    \/ BuildCustomNetwork
    \/ BuildDefaultNetwork
    \/ NetworkInputMissing
    \/ WriteNetwork
    \/ WriteDataset

-----------------------------------------------------------------------------
(* The months of a run *)

MONTHS_PER_CHUNK == 3

\* the years and the months of a year the model runs through (the program runs
\* through three years of twelve months)
NumYears == 2
MonthsPerYear == 2

YEARS == <<2023, 2024, 2025>>

\* the last month of a year: chunkStart <= 12
LAST_MONTH == 12

\* the months of all years, as (index of the year, month)
YearMonths == (1 .. Len(YEARS)) \X (1 .. LAST_MONTH)

NumMonths == NumYears * MonthsPerYear

\* the months of a run, numbered through the years
Months == 1 .. NumMonths

YearOf(m) == YEARS[((m - 1) \div MonthsPerYear) + 1]

\* the month of its year
MonthOf(m) == ((m - 1) % MonthsPerYear) + 1

\* monthDataDir: data/irs_bulk/<year>_month_<month>
MonthDataDir(m) == <<YearOf(m), "_month_", MonthOf(m)>>

\* the chunks of a year, and of a run
ChunksPerYear == (MonthsPerYear + MONTHS_PER_CHUNK - 1) \div MONTHS_PER_CHUNK
NumChunks == NumYears * ChunksPerYear

\* monthsInChunk of the chunk numbered c through the years
MonthsInChunk(c) ==
    LET y == (c - 1) \div ChunksPerYear
        chunkStart == ((c - 1) % ChunksPerYear) * MONTHS_PER_CHUNK + 1
        chunkEnd == IF chunkStart + MONTHS_PER_CHUNK - 1 < MonthsPerYear
                    THEN chunkStart + MONTHS_PER_CHUNK - 1 ELSE MonthsPerYear
    IN  { y * MonthsPerYear + k : k \in chunkStart .. chunkEnd }

\* no file
NoFile == -1

\* downloadFile is not called
NoDownload == [pos |-> "none", old |-> NoFile, file |-> NoFile, declared |-> 0,
               opened |-> FALSE, error |-> "none"]

\* pLimit has not been called for any month
NoLimiter == [m \in Months |-> [batchStart |-> 0, queued |-> 0, active |-> 0]]

\* no archive on disk
NoArchive == [layout |-> "none", docs |-> <<>>]

\* the loop over the years and the chunks before main has entered it
NoLoop == [pos |-> "start", year |-> 1, chunkStart |-> 1,
           task |-> [ym \in YearMonths |-> "idle"], outcome |-> "none"]

\* the requests of a run of the server
MaxRequests == 3

Requests == 1 .. MaxRequests

NoResponse == [seq |-> 0, req |-> 0, status |-> 0, body |-> "none", from |-> "none"]

\* the serving endpoint before the server listens: nothing is cached (null, null), no
\* request has arrived; now is the clock that Date.now() reads
NoServer == [listening |-> FALSE,
             grantsDataCache |-> "null", cacheTimestamp |-> 0,
             now |-> 1, ticks |-> 0, local |-> "absent",
             req |-> [r \in Requests |-> "none"],
             response |-> NoResponse]

NoPrevious == [ran |-> FALSE, built |-> FALSE,
               metadata |-> [foundationsProcessed |-> 0, totalGrants |-> 0],
               grants |-> <<>>, cache |-> <<>>]

-----------------------------------------------------------------------------
(* Inputs of the data model: the records of sample filings, Form 990 records  *)
(* and curated rows that the months of a run have put into allGrantsData and  *)
(* allOrgData.                                                                *)

N_AcmeInc == <<"A","c","m","e"," ","I","n","c">>
N_ACME == <<"A","C","M","E">>
N_Acme == <<"A","c","m","e">>
N_AcmeCorp == <<"A","c","m","e"," ","C","o","r","p">>
N_AcmeArts == <<"A","c","m","e"," ","A","r","t","s">>
N_HubFund == <<"H","u","b"," ","F","u","n","d">>
N_Beta == <<"B","e","t","a">>
N_GammaLLC == <<"G","a","m","m","a"," ","L","L","C">>
N_GAMMA == <<"G","A","M","M","A">>
N_DeltaArts == <<"D","e","l","t","a"," ","A","r","t","s">>
N_DeltaArtsWide == <<"D","e","l","t","a"," "," ","A","r","t","s">>
N_deltaarts == <<"d","e","l","t","a"," ","a","r","t","s"," ">>

EIN_F1 == <<"7","1">>
EIN_F2 == <<"7","2">>
EIN_E1 == <<"3","1">>
EIN_E2 == <<"0","5">>
EIN_E3 == <<"4","4">>
EIN_Quoted == <<"3","\"","1">>
EIN_Unknown7 == <<"u","n","k","n","o","w","n","_","7">>

C_Rye == <<"R","y","e">>
C_RYE == <<"R","Y","E">>
C_Troy == <<"T","r","o","y">>
S_NY == <<"N","Y">>
S_ny == <<"n","y">>

Meta(city, state) == [present |-> TRUE, city |-> city, state |-> state]

Grant(ein, name, amount, year, city, state) ==
    [recipientEIN |-> ein, recipientName |-> name, amount |-> amount, year |-> year,
     recipientCity |-> city, recipientState |-> state]

Filing(ein, name, grants) ==
    [funderEIN |-> ein, funderName |-> name, grants |-> grants,
     metadata |-> Meta(C_Troy, S_NY)]

SampleFilings == {
    Filing(EIN_F1, N_HubFund, <<Grant(<<>>, N_AcmeInc, 1000, 2023, <<>>, <<>>)>>),
    Filing(EIN_F2, N_Beta, <<Grant(EIN_E1, N_ACME, 500, 2023, <<>>, <<>>)>>),
    Filing(EIN_F1, N_HubFund, <<Grant(<<>>, N_AcmeInc, 700, 2024, C_Rye, S_NY),
                                Grant(EIN_F1, N_HubFund, 50, 2024, <<>>, <<>>)>>),
    Filing(EIN_F2, N_Beta, <<Grant(EIN_E2, N_Acme, 300, 2024, <<>>, <<>>),
                             Grant(EIN_F1, N_HubFund, 40, 2024, <<>>, <<>>)>>),
    Filing(HLF_EIN, HLF_NAME, <<Grant(EIN_E1, N_ACME, 900, 2023, <<>>, <<>>)>>),
    Filing(EIN_F1, N_HubFund, <<Grant(UNKNOWN, N_Beta, 60, 2023, <<>>, <<>>),
                                Grant(UNKNOWN, N_GammaLLC, 70, 2023, <<>>, <<>>),
                                Grant(EIN_Unknown7, N_GAMMA, 80, 2023, <<>>, <<>>)>>),
    Filing(<<>>, N_Beta, <<Grant(EIN_E1, N_ACME, 10, 2023, <<>>, <<>>)>>),
    Filing(EIN_F2, N_Beta, <<Grant(<<>>, N_AcmeInc, 200, 2024, <<>>, <<>>),
                             Grant(EIN_E1, N_AcmeArts, 20, 2024, <<>>, <<>>)>>),
    Filing(EIN_F1, N_GAMMA, <<Grant(EIN_Quoted, N_Beta, 5, 2024, <<>>, <<>>)>>) }

OrgRecord(ein, name, metadata) == [ein |-> ein, name |-> name, metadata |-> metadata]

SampleOrgs == {
    OrgRecord(EIN_E1, N_AcmeCorp, Meta(C_Troy, S_NY)),
    OrgRecord(EIN_E1, N_Acme, Meta(C_Rye, S_NY)),
    OrgRecord(EIN_E2, N_ACME, Meta(C_RYE, S_ny)),
    OrgRecord(EIN_E3, N_DeltaArts, Meta(C_Rye, S_NY)),
    OrgRecord(<<>>, N_Beta, Meta(C_Rye, S_NY)) }

Row(sheet, organization, amount) ==
    [sheet |-> sheet, Organization |-> organization, amount |-> amount]

SampleRows == {
    Row(2023, N_AcmeInc, 20000),
    Row(2024, N_ACME, 15000),
    Row(2023, N_Acme, 5000),
    Row(2023, N_DeltaArtsWide, 12000),
    Row(2024, N_deltaarts, 3000),
    Row(2023, DISCRETIONARY_GRANTS, 5000) }

CustomEINs == {EIN_F1, EIN_F2}

\* the number of input items (filing records, Form 990 records, curated rows) of a run
MaxInputs == 3

SeqsUpTo(S, n) == UNION { [1 .. k -> S] : k \in 0 .. n }

\* a grants cache file: present is fs.existsSync, parses says that JSON.parse accepts it
PresentCache(grants) == [present |-> TRUE, parses |-> TRUE, grants |-> grants]
AbsentCache == [present |-> FALSE, parses |-> FALSE, grants |-> <<>>]

\* the file that a failed fs.writeFileSync leaves: created, its text incomplete
TruncatedCache == [present |-> TRUE, parses |-> FALSE, grants |-> <<>>]

CompleteOrgCache(orgs) == [state |-> "complete", orgs |-> orgs]
AbsentOrgCache == [state |-> "absent", orgs |-> <<>>]

\* main has run through its months, all of them loaded from the cache, and is about to
\* build the dataset
InitData ==
    /\ pc = "build"
    /\ allGrantsData \in SeqsUpTo(SampleFilings, MaxInputs)
    /\ allOrgData \in SeqsUpTo(SampleOrgs, MaxInputs - Len(allGrantsData))
    /\ \/ /\ customEIN \in CustomEINs
          /\ excelReadable = TRUE
          /\ excelRows = <<>>
       \/ /\ customEIN = <<>>
          /\ excelReadable \in BOOLEAN
          /\ excelRows \in IF excelReadable
                           THEN SeqsUpTo(SampleRows,
                                         MaxInputs - Len(allGrantsData) - Len(allOrgData))
                           ELSE {<<>>}
    /\ dataset = EmptyDataset
    /\ network = EmptyNetwork
    /\ networkFile = "absent"
    /\ datasetFile = "absent"
    /\ datasetText = <<>>
    /\ exitCode = -1
    /\ exitCause = "none"
    /\ run = 1
    /\ chunk = NumChunks
    /\ mpc = [m \in Months |-> "cached"]
    /\ archive = [m \in Months |-> NoArchive]
    /\ cache = [m \in Months |-> PresentCache(IF m = 1 THEN allGrantsData ELSE <<>>)]
    /\ orgCache = [m \in Months |-> CompleteOrgCache(IF m = 1 THEN allOrgData ELSE <<>>)]
    /\ workdir = {}
    /\ dl = NoDownload
    /\ limiter = NoLimiter
    /\ previous = NoPrevious
    /\ loop = NoLoop
    /\ server = NoServer

SpecData == InitData /\ [][NextPost]_vars

-----------------------------------------------------------------------------
(* The parsers of a filing document *)

\* a || b on strings: the empty string and undefined are both falsy
Or(a, b) == IF a # <<>> THEN a ELSE b

\* a number of JavaScript: NaN, or a whole number
NaN == [nan |-> TRUE, v |-> 0]
Num(v) == [nan |-> FALSE, v |-> v]

RECURSIVE LeadingDigits(_)
LeadingDigits(s) ==
    IF s # <<>> /\ IsDigit(Head(s)) THEN <<Head(s)>> \o LeadingDigits(Tail(s)) ELSE <<>>

\* parseFloat on texts of whole numbers: leading white space, a sign, the longest
\* prefix of digits; NaN when there is no digit
parseFloat(s) ==
    LET t == TrimLeft(s)
        negative == t # <<>> /\ Head(t) = "-"
        u == IF t # <<>> /\ Head(t) \in {"-", "+"} THEN Tail(t) ELSE t
        digits == LeadingDigits(u)
    IN  IF digits = <<>> THEN NaN
        ELSE Num(IF negative THEN 0 - DigitsValue(digits, 0) ELSE DigitsValue(digits, 0))

\* amount > 0
GreaterThanZero(n) == ~n.nan /\ n.v > 0

\* year.toString()
RECURSIVE NatToString(_)
NatToString(n) ==
    IF n < 10 THEN <<DigitChars[n + 1]>>
    ELSE NatToString(n \div 10) \o <<DigitChars[(n % 10) + 1]>>

\* parseInt(text, 10) of a text of digits
parseInt(s) == DigitsValue(LeadingDigits(TrimLeft(s)), 0)

\* a variant of RetainGrant that keeps a named recipient whatever its amount
RetainGrantWithAnyAmount(recipientName, amount) == recipientName # <<>>

\* the test of the loop over the grant sections: recipientName && amount > 0
RetainGrant(recipientName, amount) == recipientName # <<>> /\ GreaterThanZero(amount)

\* the body of the loop over the grant sections: the grants a recipient element adds
GrantsOfRecipient(recipient, taxYear) ==
    LET recipientName == Or(recipient.RecipientBusinessName,
                            Or(recipient.RecipientPersonNm,
                               recipient.RecipientOrganizationName))
        amount == parseFloat(Or(recipient.Amt,
                                Or(recipient.Amount, Or(recipient.CashGrantAmt, <<"0">>))))
    IN  IF RetainGrant(recipientName, amount)
        THEN << [recipientEIN |-> recipient.RecipientEIN,
                 recipientName |-> recipientName,
                 amount |-> amount.v,
                 year |-> taxYear,
                 recipientCity |-> recipient.CityNm,
                 recipientState |-> recipient.StateAbbreviationCd] >>
        ELSE <<>>

RECURSIVE GrantsOfSections(_, _)
GrantsOfSections(grantSections, taxYear) ==
    IF grantSections = <<>> THEN <<>>
    ELSE GrantsOfRecipient(Head(grantSections), taxYear)
         \o GrantsOfSections(Tail(grantSections), taxYear)

FOUNDATION_ == <<"F","o","u","n","d","a","t","i","o","n"," ">>
ORGANIZATION_ == <<"O","r","g","a","n","i","z","a","t","i","o","n"," ">>
UNDEFINED == <<"u","n","d","e","f","i","n","e","d">>

\* `${ein}` of a template literal
Interpolate(ein) == IF ein = <<>> THEN UNDEFINED ELSE ein

\* a parser's null
Null == [present |-> FALSE]

\* processXmlFile: null unless the document is a well-formed IRS990PF return; a
\* document whose reading or parsing throws gives null
processXmlFile(doc, year) ==
    IF doc.root # "IRS990PF" THEN Null
    ELSE IF ~doc.wellFormed THEN Null
    ELSE LET funderName == Or(doc.BusinessNameLine1Txt, FOUNDATION_ \o Interpolate(doc.EIN))
             taxYear == parseInt(Or(doc.TaxYr, NatToString(year)))
         IN  [present |-> TRUE,
              data |-> [funderEIN |-> doc.EIN,
                        funderName |-> funderName,
                        grants |-> GrantsOfSections(doc.grantSections, taxYear),
                        metadata |-> Meta(doc.CityNm, doc.StateAbbreviationCd)]]

\* parseXML990File: null unless the document is a well-formed IRS990 return (the text
\* of an IRS990EZ return passes the quick check and has no IRS990 element)
parseXML990File(doc, year) ==
    IF doc.root \notin {"IRS990", "IRS990EZ"} THEN Null
    ELSE IF ~doc.wellFormed THEN Null
    ELSE IF doc.root # "IRS990" THEN Null
    ELSE [present |-> TRUE,
          data |-> [ein |-> doc.EIN,
                    name |-> Or(doc.BusinessNameLine1Txt,
                                ORGANIZATION_ \o Interpolate(doc.EIN)),
                    metadata |-> Meta(doc.CityNm, doc.StateAbbreviationCd)]]

\* a variant of ProcessDocument that keeps a grant-maker record without grants
ProcessDocumentKeepingEmpty(doc, year) ==
    LET pfResult == processXmlFile(doc, year)
    IN  IF pfResult.present
        THEN [type |-> "pf", data |-> pfResult.data]
        ELSE IF PROCESS_990
             THEN LET orgResult == parseXML990File(doc, year)
                  IN  IF orgResult.present THEN [type |-> "org", data |-> orgResult.data]
                      ELSE [type |-> "null"]
             ELSE [type |-> "null"]

\* the task of one document of a batch: a grant-maker record, a Form 990 record or null
ProcessDocument(doc, year) ==
    LET pfResult == processXmlFile(doc, year)
    IN  IF pfResult.present
        THEN IF pfResult.data.grants # <<>>
             THEN [type |-> "pf", data |-> pfResult.data]
             ELSE [type |-> "null"]
        ELSE IF PROCESS_990
             THEN LET orgResult == parseXML990File(doc, year)
                  IN  IF orgResult.present THEN [type |-> "org", data |-> orgResult.data]
                      ELSE [type |-> "null"]
             ELSE [type |-> "null"]

\* a variant of BatchResults in which a document that throws rejects its batch: the
\* documents after it give nothing
BatchResultsAbortedByThrow(docs, year) ==
    [i \in DOMAIN docs |->
        IF \E j \in 1 .. i : ~docs[j].wellFormed THEN [type |-> "null"]
        ELSE ProcessDocument(docs[i], year)]

\* the results of the batches of a month, in the order of the files
BatchResults(docs, year) == [i \in DOMAIN docs |-> ProcessDocument(docs[i], year)]

RECURSIVE DataOfType(_, _)
DataOfType(results, type) ==
    IF results = <<>> THEN <<>>
    ELSE (IF Head(results).type = type THEN <<Head(results).data>> ELSE <<>>)
         \o DataOfType(Tail(results), type)

\* monthlyGrantsData once the batches of a month are through
MonthlyGrantsData(docs, year) == DataOfType(BatchResults(docs, year), "pf")

\* the records written to the stream of the month's Form 990 cache
MonthlyOrgData(docs, year) ==
    IF PROCESS_990 THEN DataOfType(BatchResults(docs, year), "org") ELSE <<>>

-----------------------------------------------------------------------------
(* The monthly archives *)

Recipient(business, person, organization, ein, amt, amount, cash, city, state) ==
    [RecipientBusinessName |-> business, RecipientPersonNm |-> person,
     RecipientOrganizationName |-> organization, RecipientEIN |-> ein,
     Amt |-> amt, Amount |-> amount, CashGrantAmt |-> cash,
     CityNm |-> city, StateAbbreviationCd |-> state]

Document(root, wellFormed, ein, name, taxYr, grantSections) ==
    [root |-> root, wellFormed |-> wellFormed, EIN |-> ein,
     BusinessNameLine1Txt |-> name, TaxYr |-> taxYr,
     CityNm |-> C_Troy, StateAbbreviationCd |-> S_NY, grantSections |-> grantSections]

T_1000 == <<"1","0","0","0">>
T_700 == <<"7","0","0">>
T_500 == <<"5","0","0">>
T_50 == <<"5","0">>
T_0 == <<"0">>
T_Minus5 == <<"-","5">>
T_NotANumber == <<"n","/","a">>
T_2023 == <<"2","0","2","3">>
EIN_F3 == <<"7","3">>

\* the archives the remote site holds; the archive of a month is one of them
SampleArchives == <<
    [layout |-> "nested",
     docs |-> << Document("IRS990PF", TRUE, EIN_F1, N_HubFund, T_2023,
                    << Recipient(N_AcmeInc, <<>>, <<>>, <<>>, T_1000, <<>>, <<>>, <<>>, <<>>),
                       Recipient(<<>>, N_Beta, <<>>, <<>>, <<>>, T_0, <<>>, <<>>, <<>>),
                       Recipient(<<>>, <<>>, <<>>, EIN_E2, T_500, <<>>, <<>>, <<>>, <<>>),
                       Recipient(<<>>, <<>>, N_ACME, EIN_E1, <<>>, <<>>, T_NotANumber,
                                 <<>>, <<>>) >>),
                 Document("IRS990", TRUE, EIN_E1, N_AcmeCorp, T_2023, <<>>) >>],
    [layout |-> "subdirectory",
     docs |-> << Document("IRS990PF", TRUE, EIN_F1, N_HubFund, <<>>,
                    << Recipient(<<>>, <<>>, N_AcmeInc, <<>>, <<>>, T_700, <<>>, C_Rye, S_NY),
                       Recipient(<<>>, N_HubFund, <<>>, EIN_F1, <<>>, <<>>, T_50,
                                 <<>>, <<>>) >>),
                 Document("IRS990EZ", TRUE, EIN_E2, N_Acme, T_2023, <<>>),
                 Document("IRS990", TRUE, EIN_E3, <<>>, T_2023, <<>>) >>],
    [layout |-> "flat",
     docs |-> << Document("IRS990PF", FALSE, EIN_F3, N_Beta, T_2023,
                    << Recipient(N_Acme, <<>>, <<>>, EIN_E2, T_500, <<>>, <<>>,
                                 <<>>, <<>>) >>),
                 Document("IRS990PF", TRUE, EIN_F2, <<>>, <<>>,
                    << Recipient(N_ACME, <<>>, <<>>, EIN_E1, T_500, <<>>, <<>>, C_Rye, S_NY),
                       Recipient(N_Acme, <<>>, <<>>, EIN_E2, T_Minus5, <<>>, <<>>,
                                 <<>>, <<>>) >>),
                 Document("IRS990", FALSE, EIN_E2, N_Acme, T_2023, <<>>),
                 Document("IRS990PF", TRUE, EIN_F3, N_Beta, T_2023,
                    << Recipient(N_Acme, <<>>, <<>>, <<>>, <<>>, <<>>, <<>>, <<>>, <<>>) >>),
                 Document("IRS990", TRUE, EIN_E3, N_DeltaArts, T_2023, <<>>)
              >>],
    [layout |-> "none", docs |-> <<>>] >>

\* the archive the remote site holds for month m
ArchiveOf(m) == SampleArchives[((m - 1) % Len(SampleArchives)) + 1]

\* the errors a download ends with: the response status and the error code of axios
Error(status, code) == [status |-> status, code |-> code]

DownloadErrors == { Error(404, "ERR_BAD_REQUEST"), Error(403, "ERR_BAD_REQUEST"),
                    Error(500, "ERR_BAD_RESPONSE"), Error(0, "ECONNABORTED"),
                    Error(0, "incomplete") }

\* is404 of the month's catch; the URL of every month includes 'TEOS_XML'
is404(error) == error.status = 404 \/ error.code = "ERR_BAD_REQUEST"

\* a variant of MonthCatch that rethrows what is not a not-found response
MonthCatchRethrowing(error) == IF is404(error) THEN "skipped" ELSE "rethrown"

\* the catch of a month's task: both branches log and return; the name of the branch
\* is the position the task ends in
MonthCatch(error) == IF is404(error) THEN "skipped" ELSE "failed"

\* the exit codes of unzip
UnzipCodes == {0, 1, 2, 3}

\* extractZip: resolves on exit code 0, and on the codes 1 and 3 when the destination
\* holds a file
extractZip(code, filesExtracted) ==
    IF code = 0 THEN "resolved"
    ELSE IF code \in {1, 3} /\ filesExtracted THEN "resolved"
    ELSE "rejected"

\* the search for the directory of the documents: "none" is the throw
LocateXmlDir(layout) ==
    CASE layout = "nested" -> "nestedDir"
      [] layout = "flat" -> "extractedSubdir"
      [] layout = "subdirectory" -> "subdirWithXml"
      [] OTHER -> "none"

-----------------------------------------------------------------------------
(* The months of a run: main's loop over the years and the chunks of months *)

\* the number of runs of the script the model follows
MaxRuns == 2

OpenOrgCache(orgs) == [state |-> "open", orgs |-> orgs]

\* a month's task has returned
Finished(m) == mpc[m] \in {"cached", "done", "skipped", "failed"}

\* a cached month that is not loaded
CachedGrantsSkipped(lo, hi) == <<>>

\* what the cached months lo .. hi of a chunk push, in the order of monthsInChunk
RECURSIVE CachedGrants(_, _)
CachedGrants(lo, hi) ==
    IF lo > hi THEN <<>>
    ELSE (IF cache[lo].present /\ cache[lo].parses THEN cache[lo].grants ELSE <<>>)
         \o CachedGrants(lo + 1, hi)

RECURSIVE CachedOrgs(_, _)
CachedOrgs(lo, hi) ==
    IF lo > hi THEN <<>>
    ELSE (IF cache[lo].present /\ cache[lo].parses /\ PROCESS_990
             /\ orgCache[lo].state = "complete"
          THEN orgCache[lo].orgs ELSE <<>>) \o CachedOrgs(lo + 1, hi)

Min(S) == CHOOSE x \in S : \A y \in S : x <= y
Max(S) == CHOOSE x \in S : \A y \in S : x >= y

\* the process ends through main().catch
Exit(cause) ==
    /\ pc' = "exited"
    /\ exitCode' = 1
    /\ exitCause' = cause

\* Promise.all of the previous chunk has resolved (or the run begins) and the tasks of
\* the next chunk run to their first await: a cached month pushes its records and
\* returns, any other month makes its working directory and starts its download.  The
\* cache is read outside the month's try: a Form 990 cache that does not parse rejects
\* the task, and with it main.
StartChunk ==
    /\ pc \in {"start", "months"}
    /\ chunk < NumChunks
    /\ chunk > 0 => \A m \in MonthsInChunk(chunk) : Finished(m)
    /\ LET ms == MonthsInChunk(chunk + 1)
           cached == { m \in ms : cache[m].present }
       IN  /\ chunk' = chunk + 1
           /\ mpc' = [m \in Months |-> IF m \in cached THEN "cached"
                                        ELSE IF m \in ms THEN "downloading" ELSE mpc[m]]
           /\ workdir' = workdir \cup { MonthDataDir(m) : m \in ms \ cached }
           /\ allGrantsData' = allGrantsData \o CachedGrants(Min(ms), Max(ms))
           /\ allOrgData' = allOrgData \o CachedOrgs(Min(ms), Max(ms))
           /\ IF \E m \in cached : \/ ~cache[m].parses
                                   \/ PROCESS_990 /\ orgCache[m].state = "open"
              THEN Exit("cache")
              ELSE /\ pc' = "months"
                   /\ UNCHANGED <<exitCode, exitCause>>
    /\ UNCHANGED <<customEIN, excelRows, excelReadable, dataset, network, networkFile,
                   datasetFile, datasetText, run, archive, cache, orgCache, dl, limiter, previous, loop, server>>

\* what no step of a month's task changes
KeptByMonths == <<customEIN, excelRows, excelReadable, dataset, network, networkFile,
                  datasetFile, datasetText, run, chunk, dl, limiter, previous,
                  loop, server>>

\* the catch and the finally of month m's task, entered with error
MonthEnds(m, error) ==
    LET outcome == MonthCatch(error)
    IN  /\ workdir' = workdir \ {MonthDataDir(m)}
        /\ archive' = [archive EXCEPT ![m] = NoArchive]
        /\ IF outcome = "rethrown"
           THEN /\ mpc' = [mpc EXCEPT ![m] = "failed"]
                /\ Exit("month")
           ELSE /\ mpc' = [mpc EXCEPT ![m] = outcome]
                /\ UNCHANGED <<pc, exitCode, exitCause>>

\* downloadFile resolves: the archive is on disk, its size verified; extractZip starts
DownloadDone(m) ==
    /\ pc = "months" /\ mpc[m] = "downloading"
    /\ archive' = [archive EXCEPT ![m] = ArchiveOf(m)]
    /\ mpc' = [mpc EXCEPT ![m] = "extracting"]
    /\ UNCHANGED <<workdir, cache, orgCache, allGrantsData, allOrgData>>
    /\ UNCHANGED <<pc, exitCode, exitCause>>
    /\ UNCHANGED KeptByMonths

\* downloadFile rejects
DownloadFails(m) ==
    /\ pc = "months" /\ mpc[m] = "downloading"
    /\ \E error \in DownloadErrors : MonthEnds(m, error)
    /\ UNCHANGED <<cache, orgCache, allGrantsData, allOrgData>>
    /\ UNCHANGED KeptByMonths

\* an exception is thrown inside an event handler, or a stream emits 'error' with no
\* listener: no promise of month m's task rejects, no catch and no finally runs, the
\* process ends with an uncaught exception
Crashes(m) ==
    /\ mpc' = [mpc EXCEPT ![m] = "crashed"]
    /\ pc' = "exited"
    /\ exitCode' = 1
    /\ exitCause' = "uncaught"
    /\ UNCHANGED <<workdir, archive, cache, orgCache, allGrantsData, allOrgData>>

\* downloadFile's writer cannot open the archive's destination: the writer's 'error'
\* handler throws
DownloadCrashes(m) ==
    /\ pc = "months" /\ mpc[m] = "downloading"
    /\ Crashes(m)
    /\ UNCHANGED KeptByMonths

\* unzip has ended with some exit code
Extracts(m, code) ==
    /\ extractZip(code, archive[m].docs # <<>>) = "resolved"
    /\ LocateXmlDir(archive[m].layout) # "none"

\* extractZip resolves and the directory of the documents is found: the stream of the
\* Form 990 cache is opened and the first batch starts
ExtractDone(m) ==
    /\ pc = "months" /\ mpc[m] = "extracting"
    /\ \E code \in UnzipCodes : Extracts(m, code)
    /\ orgCache' = IF PROCESS_990 THEN [orgCache EXCEPT ![m] = OpenOrgCache(<<>>)]
                   ELSE orgCache
    /\ mpc' = [mpc EXCEPT ![m] = "parsing"]
    /\ UNCHANGED <<workdir, archive, cache, allGrantsData, allOrgData>>
    /\ UNCHANGED <<pc, exitCode, exitCause>>
    /\ UNCHANGED KeptByMonths

\* extractZip rejects, or no directory holds a document
ExtractFails(m) ==
    /\ pc = "months" /\ mpc[m] = "extracting"
    /\ \E code \in UnzipCodes : ~Extracts(m, code)
    /\ MonthEnds(m, Error(0, "extract"))
    /\ UNCHANGED <<cache, orgCache, allGrantsData, allOrgData>>
    /\ UNCHANGED KeptByMonths

\* the batches of the month are through: the Form 990 records are in the stream, the
\* grant-maker records in monthlyGrantsData; the stream is being closed
ParseBatches(m) ==
    /\ pc = "months" /\ mpc[m] = "parsing"
    /\ orgCache' = IF PROCESS_990
                   THEN [orgCache EXCEPT
                           ![m] = OpenOrgCache(MonthlyOrgData(archive[m].docs, YearOf(m)))]
                   ELSE orgCache
    /\ mpc' = [mpc EXCEPT ![m] = "closing"]
    /\ UNCHANGED <<workdir, archive, cache, allGrantsData, allOrgData>>
    /\ UNCHANGED <<pc, exitCode, exitCause>>
    /\ UNCHANGED KeptByMonths

\* the stream of the Form 990 cache emits 'error' (it cannot open its file, or a write
\* fails) while the batches run: its error listener is attached only when it is closed
StreamCrashes(m) ==
    /\ pc = "months" /\ mpc[m] = "parsing"
    /\ PROCESS_990
    /\ Crashes(m)
    /\ UNCHANGED KeptByMonths

\* the stream has ended: the month is cached and pushed, its working directory removed
CloseDone(m) ==
    /\ pc = "months" /\ mpc[m] = "closing"
    /\ LET monthlyGrantsData == MonthlyGrantsData(archive[m].docs, YearOf(m))
           orgData == orgCache[m].orgs
       IN  /\ cache' = [cache EXCEPT ![m] = PresentCache(monthlyGrantsData)]
           /\ orgCache' = IF PROCESS_990
                          THEN [orgCache EXCEPT ![m] = CompleteOrgCache(orgData)]
                          ELSE orgCache
           /\ allGrantsData' = allGrantsData \o monthlyGrantsData
           /\ allOrgData' = IF PROCESS_990 /\ Len(orgData) > 0
                            THEN allOrgData \o orgData ELSE allOrgData
    /\ mpc' = [mpc EXCEPT ![m] = "done"]
    /\ workdir' = workdir \ {MonthDataDir(m)}
    /\ archive' = [archive EXCEPT ![m] = NoArchive]
    /\ UNCHANGED <<pc, exitCode, exitCause>>
    /\ UNCHANGED KeptByMonths

\* the stream of the Form 990 cache reports an error while it is closed
CloseFails(m) ==
    /\ pc = "months" /\ mpc[m] = "closing"
    /\ PROCESS_990
    /\ MonthEnds(m, Error(0, "stream"))
    /\ UNCHANGED <<cache, orgCache, allGrantsData, allOrgData>>
    /\ UNCHANGED KeptByMonths

\* fs.writeFileSync of the grants cache throws (the disk is full): the file it opened
\* stays, incomplete; the catch logs and the month ends
CacheWriteFails(m) ==
    /\ pc = "months" /\ mpc[m] = "closing"
    /\ cache' = [cache EXCEPT ![m] = TruncatedCache]
    /\ orgCache' = IF PROCESS_990
                   THEN [orgCache EXCEPT ![m] = CompleteOrgCache(orgCache[m].orgs)]
                   ELSE orgCache
    /\ MonthEnds(m, Error(0, "ENOSPC"))
    /\ UNCHANGED <<allGrantsData, allOrgData>>
    /\ UNCHANGED KeptByMonths

\* the grants cache is written and the records are pushed; reading the Form 990 cache
\* back throws: the catch logs and the month ends
ReadBackFails(m) ==
    /\ pc = "months" /\ mpc[m] = "closing"
    /\ PROCESS_990 /\ Len(orgCache[m].orgs) > 0
    /\ LET monthlyGrantsData == MonthlyGrantsData(archive[m].docs, YearOf(m))
       IN  /\ cache' = [cache EXCEPT ![m] = PresentCache(monthlyGrantsData)]
           /\ allGrantsData' = allGrantsData \o monthlyGrantsData
    /\ orgCache' = [orgCache EXCEPT ![m] = CompleteOrgCache(orgCache[m].orgs)]
    /\ MonthEnds(m, Error(0, "EIO"))
    /\ UNCHANGED allOrgData
    /\ UNCHANGED KeptByMonths

\* Promise.all of the last chunk of the last year has resolved
FinishMonths ==
    /\ pc = "months"
    /\ chunk = NumChunks
    /\ \A m \in MonthsInChunk(chunk) : Finished(m)
    /\ pc' = "build"
    /\ UNCHANGED <<customEIN, excelRows, excelReadable, allGrantsData, allOrgData,
                   dataset, network, networkFile, datasetFile, datasetText, exitCode, exitCause>>
    /\ UNCHANGED monthVars

\* the script is run again: the cache directory is what the run before left
StartNextRun ==
    /\ pc \in {"done", "exited"}
    /\ run < MaxRuns
    /\ run' = run + 1
    /\ previous' = [ran |-> TRUE,
                    built |-> (pc = "done" \/ exitCause = "network-input"),
                    metadata |-> dataset.metadata,
                    grants |-> allGrantsData,
                    cache |-> cache]
    /\ pc' = "start"
    /\ chunk' = 0
    /\ mpc' = [m \in Months |-> "idle"]
    /\ allGrantsData' = <<>>
    /\ allOrgData' = <<>>
    /\ dataset' = EmptyDataset
    /\ network' = EmptyNetwork
    /\ networkFile' = "absent"
    /\ datasetFile' = "absent"
    /\ datasetText' = <<>>
    /\ exitCode' = -1
    /\ exitCause' = "none"
    /\ archive' = [m \in Months |-> IF MonthDataDir(m) \in workdir THEN archive[m]
                                       ELSE NoArchive]
    /\ UNCHANGED <<customEIN, excelRows, excelReadable, cache, orgCache, workdir, dl,
                   limiter, loop, server>>

\* the ways the script is run: for another foundation, or for the curated list
RunInputs == {
    [customEIN |-> EIN_F1, excelReadable |-> TRUE, excelRows |-> <<>>],
    [customEIN |-> <<>>, excelReadable |-> TRUE,
     excelRows |-> <<Row(2023, N_AcmeInc, 20000), Row(2024, N_ACME, 15000)>>] }

Init ==
    /\ pc = "start"
    /\ \E in \in RunInputs :
          /\ customEIN = in.customEIN
          /\ excelReadable = in.excelReadable
          /\ excelRows = in.excelRows
    /\ allGrantsData = <<>>
    /\ allOrgData = <<>>
    /\ dataset = EmptyDataset
    /\ network = EmptyNetwork
    /\ networkFile = "absent"
    /\ datasetFile = "absent"
    /\ datasetText = <<>>
    /\ exitCode = -1
    /\ exitCause = "none"
    /\ run = 1
    /\ chunk = 0
    /\ mpc = [m \in Months |-> "idle"]
    /\ archive = [m \in Months |-> NoArchive]
    /\ cache = [m \in Months |-> AbsentCache]
    /\ orgCache = [m \in Months |-> AbsentOrgCache]
    /\ workdir = {}
    /\ dl = NoDownload
    /\ limiter = NoLimiter
    /\ previous = NoPrevious
    /\ loop = NoLoop
    /\ server = NoServer

\* the steps of main's loop over the years and the chunks
NextMonths ==
    \/ StartChunk
    \/ \E m \in Months : DownloadDone(m)
    \/ \E m \in Months : DownloadFails(m)
    \/ \E m \in Months : DownloadCrashes(m)
    \/ \E m \in Months : ExtractDone(m)
    \/ \E m \in Months : ExtractFails(m)
    \/ \E m \in Months : ParseBatches(m)
    \/ \E m \in Months : StreamCrashes(m)
    \/ \E m \in Months : CloseDone(m)
    \/ \E m \in Months : CloseFails(m)
    \/ \E m \in Months : CacheWriteFails(m)
    \/ \E m \in Months : ReadBackFails(m)
    \/ FinishMonths

Next ==
    \/ NextMonths
    \/ NextPost
    \/ StartNextRun

Spec == Init /\ [][Next]_vars

-----------------------------------------------------------------------------
(* downloadFile, one call of it followed from event to event *)

\* the sizes of files and of declared content lengths the model runs through
MaxBytes == 3

Download(pos, old, file, declared, opened, error) ==
    [pos |-> pos, old |-> old, file |-> file, declared |-> declared, opened |-> opened,
     error |-> error]

\* the errors axios rejects with
RequestErrors == {"404", "403", "500", "ECONNABORTED"}

\* if (fs.existsSync(dest)) fs.unlinkSync(dest)
UnlinkIfExists(file) == NoFile

\* the catch of downloadFile: cleans up and throws the error on
DownloadFileCatch(d, error) ==
    Download("rejected", d.old, UnlinkIfExists(d.file), d.declared, d.opened, error)

\* what no step of downloadFile changes
KeptByDownload ==
    <<postVars, run, chunk, mpc, archive, cache, orgCache, workdir, limiter, previous,
      loop, server>>

\* downloadFile is entered: a file at the destination is removed and the request sent
DlCall ==
    /\ dl.pos = "called"
    /\ dl' = [dl EXCEPT !.pos = "requesting", !.file = UnlinkIfExists(dl.file)]
    /\ UNCHANGED KeptByDownload

\* axios rejects
DlRequestFails ==
    /\ dl.pos = "requesting"
    /\ \E error \in RequestErrors : dl' = DownloadFileCatch(dl, error)
    /\ UNCHANGED KeptByDownload

\* axios resolves with the response stream: the content length is read (0 when there
\* is no header), the writer is created and the response piped to it
DlResponse ==
    /\ dl.pos = "requesting"
    /\ \E totalLength \in 0 .. MaxBytes :
          dl' = [dl EXCEPT !.pos = "piping", !.declared = totalLength]
    /\ UNCHANGED KeptByDownload

\* the writer has opened the destination
DlWriterOpens ==
    /\ dl.pos = "piping" /\ ~dl.opened
    /\ dl' = [dl EXCEPT !.opened = TRUE, !.file = 0]
    /\ UNCHANGED KeptByDownload

\* the writer cannot open the destination: its 'error' handler calls
\* fs.unlinkSync(dest) on a file that does not exist, which throws inside the handler
DlWriterOpenFails ==
    /\ dl.pos = "piping" /\ ~dl.opened
    /\ dl' = [dl EXCEPT !.pos = "uncaught", !.error = "ENOENT"]
    /\ UNCHANGED KeptByDownload

\* a chunk of the response is written
DlChunk ==
    /\ dl.pos = "piping" /\ dl.opened
    /\ dl.file < MaxBytes
    /\ dl' = [dl EXCEPT !.file = @ + 1]
    /\ UNCHANGED KeptByDownload

\* a write fails: the 'error' handler of the writer unlinks the file and rejects
DlWriteFails ==
    /\ dl.pos = "piping" /\ dl.opened
    /\ dl' = DownloadFileCatch([dl EXCEPT !.file = NoFile], "write")
    /\ UNCHANGED KeptByDownload

\* the response stream fails: its 'error' handler closes the writer, unlinks the file
\* if it exists and rejects
DlResponseFails ==
    /\ dl.pos = "piping"
    /\ dl' = DownloadFileCatch([dl EXCEPT !.file = UnlinkIfExists(dl.file)], "stream")
    /\ UNCHANGED KeptByDownload

\* the response has ended and the writer finished: the size is verified
DlFinish ==
    /\ dl.pos = "piping" /\ dl.opened
    /\ IF dl.declared > 0 /\ dl.file # dl.declared
       THEN dl' = DownloadFileCatch([dl EXCEPT !.file = NoFile], "incomplete")
       ELSE dl' = [dl EXCEPT !.pos = "resolved"]
    /\ UNCHANGED KeptByDownload

NextDownload ==
    \/ DlCall
    \/ DlRequestFails
    \/ DlResponse
    \/ DlWriterOpens
    \/ DlWriterOpenFails
    \/ DlChunk
    \/ DlWriteFails
    \/ DlResponseFails
    \/ DlFinish

\* downloadFile is called, on a destination that holds a file or not
InitDownload ==
    /\ pc = "months"
    /\ customEIN = <<>>
    /\ excelReadable = TRUE
    /\ excelRows = <<>>
    /\ allGrantsData = <<>>
    /\ allOrgData = <<>>
    /\ dataset = EmptyDataset
    /\ network = EmptyNetwork
    /\ networkFile = "absent"
    /\ datasetFile = "absent"
    /\ datasetText = <<>>
    /\ exitCode = -1
    /\ exitCause = "none"
    /\ run = 1
    /\ chunk = 1
    /\ mpc = [m \in Months |-> IF m = 1 THEN "downloading" ELSE "idle"]
    /\ archive = [m \in Months |-> NoArchive]
    /\ cache = [m \in Months |-> AbsentCache]
    /\ orgCache = [m \in Months |-> AbsentOrgCache]
    /\ workdir = {MonthDataDir(1)}
    /\ previous = NoPrevious
    /\ loop = NoLoop
    /\ server = NoServer
    /\ limiter = NoLimiter
    /\ \E file \in {NoFile} \cup (0 .. MaxBytes) :
          dl = Download("called", file, file, 0, FALSE, "none")

SpecDownload == InitDownload /\ [][NextDownload]_vars

-----------------------------------------------------------------------------
(* The parsing of a month's documents: the batches and the p-limit queue *)

\* const CONCURRENCY_LIMIT, const BATCH_SIZE
CONCURRENCY_LIMIT == 20
BATCH_SIZE == 2000

\* the largest number of documents in the archive of a month other than the first
MaxFiles == 2

\* allXmlFiles.length of a month
TotalFiles(m) == Len(archive[m].docs)

\* batchEnd of the batch that starts at batchStart
BatchEnd(m, batchStart) == Min({batchStart + BATCH_SIZE, TotalFiles(m)})

\* the month's limiter, changed
Limiter(m, batchStart, queued, active) ==
    [limiter EXCEPT ![m] = [batchStart |-> batchStart, queued |-> queued,
                            active |-> active]]

KeptByParse ==
    <<postVars, run, chunk, mpc, archive, cache, orgCache, workdir, dl, previous,
      loop, server>>

\* batchFiles.map(xmlPath => limit(...)): every file of the batch is handed to the
\* month's limiter, and main awaits Promise.all of the batch
EnqueueBatch(m) ==
    /\ pc = "months" /\ mpc[m] = "parsing"
    /\ limiter[m].queued = 0 /\ limiter[m].active = 0
    /\ limiter[m].batchStart < TotalFiles(m)
    /\ LET batchEnd == BatchEnd(m, limiter[m].batchStart)
       IN  limiter' = Limiter(m, batchEnd, batchEnd - limiter[m].batchStart, 0)
    /\ UNCHANGED KeptByParse

\* p-limit starts a queued function of the month's limiter while fewer than
\* CONCURRENCY_LIMIT functions of that limiter are running
StartParse(m) ==
    /\ pc = "months" /\ mpc[m] = "parsing"
    /\ limiter[m].queued > 0
    /\ limiter[m].active < CONCURRENCY_LIMIT
    /\ limiter' = Limiter(m, limiter[m].batchStart, limiter[m].queued - 1,
                          limiter[m].active + 1)
    /\ UNCHANGED KeptByParse

\* the parse of a document ends: its promise resolves and p-limit frees its place
EndParse(m) ==
    /\ pc = "months" /\ mpc[m] = "parsing"
    /\ limiter[m].active > 0
    /\ limiter' = Limiter(m, limiter[m].batchStart, limiter[m].queued,
                          limiter[m].active - 1)
    /\ UNCHANGED KeptByParse

\* the last batch is through: the results are collected and the stream is closed
BatchesDone(m) ==
    /\ limiter[m].queued = 0 /\ limiter[m].active = 0
    /\ limiter[m].batchStart >= TotalFiles(m)
    /\ ParseBatches(m)

NextParse ==
    \/ \E m \in Months : EnqueueBatch(m)
    \/ \E m \in Months : StartParse(m)
    \/ \E m \in Months : EndParse(m)
    \/ \E m \in Months : BatchesDone(m)

\* an archive of n documents, extracted
ExtractedArchive(n) ==
    [layout |-> "flat", docs |-> [i \in 1 .. n |-> SampleArchives[1].docs[2]]]

\* the months of the first chunk have extracted their archives and are about to parse:
\* the first month's archive fills its limiter, the others hold a few documents
InitParse ==
    /\ pc = "months"
    /\ customEIN = <<>>
    /\ excelReadable = TRUE
    /\ excelRows = <<>>
    /\ allGrantsData = <<>>
    /\ allOrgData = <<>>
    /\ dataset = EmptyDataset
    /\ network = EmptyNetwork
    /\ networkFile = "absent"
    /\ datasetFile = "absent"
    /\ datasetText = <<>>
    /\ exitCode = -1
    /\ exitCause = "none"
    /\ run = 1
    /\ chunk = 1
    /\ mpc = [m \in Months |-> IF m \in MonthsInChunk(1) THEN "parsing" ELSE "idle"]
    /\ archive \in [Months -> { ExtractedArchive(n) : n \in 1 .. CONCURRENCY_LIMIT + 1 }
                                \cup {NoArchive}]
    /\ \A m \in Months :
          IF m \notin MonthsInChunk(1) THEN archive[m] = NoArchive
          ELSE IF m = 1 THEN TotalFiles(m) >= CONCURRENCY_LIMIT
          ELSE archive[m] # NoArchive /\ TotalFiles(m) <= MaxFiles
    /\ cache = [m \in Months |-> AbsentCache]
    /\ orgCache = [m \in Months |-> IF PROCESS_990 /\ m \in MonthsInChunk(1)
                                     THEN OpenOrgCache(<<>>) ELSE AbsentOrgCache]
    /\ workdir = { MonthDataDir(m) : m \in MonthsInChunk(1) }
    /\ dl = NoDownload
    /\ limiter = NoLimiter
    /\ previous = NoPrevious
    /\ loop = NoLoop
    /\ server = NoServer

SpecParse == InitParse /\ [][NextParse]_vars


-----------------------------------------------------------------------------
(* main's loop over the years and the chunks, with the twelve months of every  *)
(* year.  A month's task is followed from its start to its return only: what   *)
(* it does in between is the subject of the sections above.                    *)

\* what neither the loop nor the serving endpoint changes
pipelineVars ==
    <<postVars, run, chunk, mpc, archive, cache, orgCache, workdir, dl, limiter, previous>>

\* chunkEnd = Math.min(chunkStart + MONTHS_PER_CHUNK - 1, 12)
chunkEnd(chunkStart) == Min({chunkStart + MONTHS_PER_CHUNK - 1, LAST_MONTH})

\* monthsInChunk, for the chunk that starts with month chunkStart
monthsInChunk(chunkStart) == chunkStart .. chunkEnd(chunkStart)

\* the tasks Promise.all awaits: monthsInChunk.map(async (month) => ...)
TasksOfChunk(year, chunkStart) == { <<year, month>> : month \in monthsInChunk(chunkStart) }

\* a variant of PromiseAllResolved that resolves with the first task that returns
PromiseResolvedByFirstTask(tasks) == \E ym \in tasks : loop.task[ym] = "returned"

\* Promise.all(tasks) has resolved: every task has returned
PromiseAllResolved(tasks) == \A ym \in tasks : loop.task[ym] = "returned"

\* monthsInChunk.map runs every task of the chunk to its first await: a task whose
\* month is cached pushes the cached records and returns, a task whose cache file does
\* not parse rejects (the cache is read outside the try), every other task is in flight
\* with its download.  A rejected task rejects Promise.all and main: the process exits.
EnterChunk(year, chunkStart, cached, unreadable) ==
    LET tasks == TasksOfChunk(year, chunkStart)
    IN  loop' = [pos |-> IF unreadable = {} THEN "awaiting" ELSE "exited",
                 year |-> year,
                 chunkStart |-> chunkStart,
                 task |-> [ym \in YearMonths |->
                              IF ym \notin tasks THEN loop.task[ym]
                              ELSE IF ym \in unreadable THEN "rejected"
                              ELSE IF ym \in cached THEN "returned"
                              ELSE "inFlight"],
                 outcome |-> IF cached \ unreadable # {} THEN "cached" ELSE loop.outcome]

\* the tasks of a chunk whose months are cached, and those of them whose cache file
\* does not parse
StartOfChunk(year, chunkStart) ==
    \E cached \in SUBSET TasksOfChunk(year, chunkStart) :
        \E unreadable \in SUBSET cached :
            EnterChunk(year, chunkStart, cached, unreadable)

\* main enters the loops: the first chunk of the first year
LoopStarts ==
    /\ loop.pos = "start"
    /\ StartOfChunk(1, 1)
    /\ UNCHANGED <<pipelineVars, server>>

\* Promise.all of a chunk resolves and the year has another chunk
NextChunkOfYear ==
    /\ loop.pos = "awaiting"
    /\ PromiseAllResolved(TasksOfChunk(loop.year, loop.chunkStart))
    /\ loop.chunkStart + MONTHS_PER_CHUNK <= LAST_MONTH
    /\ StartOfChunk(loop.year, loop.chunkStart + MONTHS_PER_CHUNK)
    /\ UNCHANGED <<pipelineVars, server>>

\* Promise.all of the last chunk of a year resolves and there is another year
FirstChunkOfNextYear ==
    /\ loop.pos = "awaiting"
    /\ PromiseAllResolved(TasksOfChunk(loop.year, loop.chunkStart))
    /\ loop.chunkStart + MONTHS_PER_CHUNK > LAST_MONTH
    /\ loop.year < Len(YEARS)
    /\ StartOfChunk(loop.year + 1, 1)
    /\ UNCHANGED <<pipelineVars, server>>

\* Promise.all of the last chunk of the last year resolves: buildBidirectionalDataset
LoopEnds ==
    /\ loop.pos = "awaiting"
    /\ PromiseAllResolved(TasksOfChunk(loop.year, loop.chunkStart))
    /\ loop.chunkStart + MONTHS_PER_CHUNK > LAST_MONTH
    /\ loop.year = Len(YEARS)
    /\ loop' = [loop EXCEPT !.pos = "build"]
    /\ UNCHANGED <<pipelineVars, server>>

\* a task in flight returns: from the end of its try ("done"), or from its catch, which
\* logs a not-found response ("skipped") or any other error ("failed"); the finally
\* removes the month's directory
TaskReturns(ym, outcome) ==
    /\ loop.pos = "awaiting"
    /\ loop.task[ym] = "inFlight"
    /\ loop' = [loop EXCEPT !.task[ym] = "returned", !.outcome = outcome]
    /\ UNCHANGED <<pipelineVars, server>>

\* the ways a task in flight returns
TaskOutcomes == {"done", "skipped", "failed"}

\* an exception is thrown in an event handler of a task in flight: the process ends
TaskCrashes(ym) ==
    /\ loop.pos = "awaiting"
    /\ loop.task[ym] = "inFlight"
    /\ loop' = [loop EXCEPT !.task[ym] = "crashed", !.pos = "exited"]
    /\ UNCHANGED <<pipelineVars, server>>

NextChunks ==
    \/ LoopStarts
    \/ NextChunkOfYear
    \/ FirstChunkOfNextYear
    \/ LoopEnds
    \/ \E ym \in YearMonths, outcome \in TaskOutcomes : TaskReturns(ym, outcome)
    \/ \E ym \in YearMonths : TaskCrashes(ym)

SpecChunks == Init /\ [][NextChunks]_vars

-----------------------------------------------------------------------------
(* The serving endpoint: app.get('/api/grants-network-data') and its in-memory   *)
(* cache.  A request runs from its arrival to its first await or to its answer  *)
(* in one step; the two awaits of the remote load settle in steps of their own. *)

CACHE_DURATION == 60 * 60 * 1000

\* the advances of the clock of a run
MaxTicks == 3

\* the clock advances by a millisecond or by a millisecond less than the expiry
ClockSteps == {1, CACHE_DURATION - 1}

\* what the bundled local copy can be when the server starts
LocalCopies == {"absent", "present", "unparsable"}

\* the value JSON.parse gives for the local copy, and the values response.json() can
\* resolve with; "null" is the JSON text null, whose value is falsy
LocalData == "localGraph"

RemoteData == {"remoteGraph", "null"}

\* a variant of CacheIsFresh that still serves a value as old as the expiry
CacheIsFreshAtExpiry(now) ==
    /\ server.grantsDataCache # "null"
    /\ server.cacheTimestamp # 0
    /\ (now - server.cacheTimestamp) <= CACHE_DURATION

\* grantsDataCache && cacheTimestamp && (now - cacheTimestamp) < CACHE_DURATION
CacheIsFresh(now) ==
    /\ server.grantsDataCache # "null"
    /\ server.cacheTimestamp # 0
    /\ (now - server.cacheTimestamp) < CACHE_DURATION

\* res.json(body), or res.status(500).json({ error }) with the body "error"
Answered(srv, r, status, body, from) ==
    [srv EXCEPT !.req[r] = "answered",
                !.response = [seq |-> srv.response.seq + 1, req |-> r,
                              status |-> status, body |-> body, from |-> from]]

\* grantsDataCache = data; cacheTimestamp = Date.now()
Cached(srv, data) == [srv EXCEPT !.grantsDataCache = data, !.cacheTimestamp = srv.now]

\* app.listen: the bundled local copy is what the deployment has put in public/
ServerListens(local) ==
    /\ ~server.listening
    /\ server' = [server EXCEPT !.listening = TRUE, !.local = local]
    /\ UNCHANGED <<pipelineVars, loop>>

\* the clock advances
ClockAdvances(d) ==
    /\ server.listening
    /\ server.ticks < MaxTicks
    /\ server' = [server EXCEPT !.now = @ + d, !.ticks = @ + 1]
    /\ UNCHANGED <<pipelineVars, loop>>

\* the handler of a request, up to its answer or to await fetch(...)
GetGrantsNetworkData(r) ==
    /\ server.listening
    /\ server.req[r] = "none"
    /\ \A q \in Requests : q < r => server.req[q] # "none"
    /\ server' =
          IF CacheIsFresh(server.now)
          THEN Answered(server, r, 200, server.grantsDataCache, "cache")
          ELSE IF server.local # "absent"
               THEN IF server.local = "present"
                    THEN Answered(Cached(server, LocalData), r, 200, LocalData, "local")
                    ELSE Answered(server, r, 500, "error", "local")
               ELSE [server EXCEPT !.req[r] = "fetching"]
    /\ UNCHANGED <<pipelineVars, loop>>

FetchOutcomes == {"ok", "notOk", "rejected"}

\* await fetch(...) settles: it rejects, or resolves with a response that is ok or not
FetchSettles(r, outcome) ==
    /\ server.req[r] = "fetching"
    /\ server' = IF outcome = "ok"
                 THEN [server EXCEPT !.req[r] = "parsing"]
                 ELSE Answered(server, r, 500, "error", "remote")
    /\ UNCHANGED <<pipelineVars, loop>>

JsonOutcomes == RemoteData \cup {"rejected"}

\* await response.json() settles: it rejects, or resolves with the data, which is cached
JsonSettles(r, outcome) ==
    /\ server.req[r] = "parsing"
    /\ server' = IF outcome \in RemoteData
                 THEN Answered(Cached(server, outcome), r, 200, outcome, "remote")
                 ELSE Answered(server, r, 500, "error", "remote")
    /\ UNCHANGED <<pipelineVars, loop>>

NextServer ==
    \/ \E local \in LocalCopies : ServerListens(local)
    \/ \E d \in ClockSteps : ClockAdvances(d)
    \/ \E r \in Requests : GetGrantsNetworkData(r)
    \/ \E r \in Requests, outcome \in FetchOutcomes : FetchSettles(r, outcome)
    \/ \E r \in Requests, outcome \in JsonOutcomes : JsonSettles(r, outcome)

SpecServer == Init /\ [][NextServer]_vars

-----------------------------------------------------------------------------
(* Properties of the dataset and of the network *)

\* main is past the block that merges the Form 990 records and consolidates
DatasetBuilt == pc \in {"network", "writeNetwork", "writeDataset", "done", "exited"}

\* network holds the graph a builder returned
NetworkProduced == pc \in {"writeNetwork", "writeDataset", "done"}

RECURSIVE SumReceived(_)
SumReceived(orgs) ==
    IF orgs = <<>> THEN 0
    ELSE Len(Head(orgs).val.grantsReceived) + SumReceived(Tail(orgs))

\* how many times the entry e occurs in the grantsReceived of all organizations
RECURSIVE CountReceived(_, _)
CountReceived(orgs, e) ==
    IF orgs = <<>> THEN 0
    ELSE Cardinality({ i \in DOMAIN Head(orgs).val.grantsReceived :
                         Head(orgs).val.grantsReceived[i] = e })
         + CountReceived(Tail(orgs), e)

AllReceived(orgs) ==
    UNION { Range(orgs[i].val.grantsReceived) : i \in DOMAIN orgs }

ReceivedEntry(funderEIN, funderName, amount, year) ==
    [funderEIN |-> funderEIN, funderName |-> funderName, amount |-> amount, year |-> year]

\* C1: once the dataset is built, no placeholder-keyed organization is left whose
\* normalized name is the normalized name of a real-tax-ID organization; and from the
\* two records F1 -> "Acme Inc" ($1,000, no tax ID) and F2 -> "ACME" ($500, tax ID E1),
\* organization E1 ends with both entries and no placeholder remains.
C1_PlaceholdersConsolidated ==
    DatasetBuilt =>
        LET orgs == dataset.organizations
        IN  /\ \A i, j \in DOMAIN orgs :
                 ~ /\ IsPlaceholderKey(orgs[i].key)
                   /\ ~IsPlaceholderKey(orgs[j].key)
                   /\ normalizeOrgName(orgs[i].val.name) = normalizeOrgName(orgs[j].val.name)
            /\ ( /\ allOrgData = <<>>
                 /\ allGrantsData =
                      << Filing(EIN_F1, N_HubFund,
                                <<Grant(<<>>, N_AcmeInc, 1000, 2023, <<>>, <<>>)>>),
                         Filing(EIN_F2, N_Beta,
                                <<Grant(EIN_E1, N_ACME, 500, 2023, <<>>, <<>>)>>) >> )
               => /\ ObjKeys(orgs) = <<EIN_E1>>
                  /\ Range(ObjGet(orgs, EIN_E1).grantsReceived) =
                        { ReceivedEntry(EIN_F1, N_HubFund, 1000, 2023),
                          ReceivedEntry(EIN_F2, N_Beta, 500, 2023) }

\* C2: the consolidation pass moves grants and neither drops nor duplicates them: the
\* number of grantsReceived entries over all organizations, and the number of
\* occurrences of every entry, are the same before and after the pass.
C2_ConsolidationConservesGrants ==
    [][ pc = "consolidate" =>
          /\ SumReceived(dataset'.organizations) = SumReceived(dataset.organizations)
          /\ \A e \in AllReceived(dataset.organizations)
                      \cup AllReceived(dataset'.organizations) :
                CountReceived(dataset'.organizations, e)
                  = CountReceived(dataset.organizations, e) ]_vars

\* the pass has run and has deleted a placeholder that held grants
C2_Witness ==
    /\ pc = "network"
    /\ allOrgData # <<>>
    /\ LET before == buildBidirectionalDataset(allGrantsData).organizations
       IN  \E i \in DOMAIN before :
              /\ IsPlaceholderKey(before[i].key)
              /\ before[i].val.grantsReceived # <<>>
              /\ ~ObjHas(dataset.organizations, before[i].key)

CentralNodes == { i \in DOMAIN network.nodes : network.nodes[i].central }

CentralIds == { network.nodes[i].id : i \in CentralNodes }

HasLink(source, target) ==
    \E i \in DOMAIN network.links :
        network.links[i].source = source /\ network.links[i].target = target

\* C3: every produced network has exactly one node with central = true.
C3_ExactlyOneCentralNode ==
    NetworkProduced => Cardinality(CentralNodes) = 1

\* a network whose central foundation is a recipient of its own grant
C3_Witness ==
    /\ NetworkProduced
    /\ customEIN # <<>>
    /\ ObjHas(dataset.organizations, customEIN)
    /\ HasLink(customEIN, customEIN)

\* C4: in every produced network each grantee node is the target of a link from the
\* central node, and each other node that is not central is the source of a link to
\* the target of such a link: every node is within two links of the central node.
C4_TwoLayerEgoGraph ==
    NetworkProduced =>
        \A i \in DOMAIN network.nodes :
            LET n == network.nodes[i]
            IN  \/ n.central
                \/ /\ n.type = "grantee"
                   /\ \E c \in CentralIds : HasLink(c, n.id)
                \/ /\ n.type = "funder"
                   /\ \E c \in CentralIds : \E j \in DOMAIN network.links :
                         /\ network.links[j].source = n.id
                         /\ HasLink(c, network.links[j].target)

\* a network with a grantee node and a node of another funder of that grantee
C4_Witness ==
    /\ NetworkProduced
    /\ \E i, j \in DOMAIN network.nodes :
          /\ network.nodes[i].type = "grantee"
          /\ network.nodes[j].type = "funder" /\ ~network.nodes[j].central
          /\ HasLink(network.nodes[j].id, network.nodes[i].id)

\* the grants attributable to the central entity: the grants of its Foundation
\* record in override mode, the grants loaded from the curated list in default mode
CentralGrants ==
    IF customEIN # <<>>
    THEN LET given == ObjGet(dataset.foundations, customEIN).grantsGiven
         IN  [i \in DOMAIN given |->
                [recipientEIN |-> given[i].recipientEIN,
                 recipientName |-> given[i].recipientName,
                 amount |-> given[i].amount, year |-> given[i].year]]
    ELSE LET loaded == loadHLFGrantsFromExcel(excelRows)
         IN  [i \in DOMAIN loaded |->
                [recipientEIN |-> <<>>, recipientName |-> loaded[i].organization,
                 amount |-> loaded[i].amount, year |-> loaded[i].year]]

CentralLinks == { i \in DOMAIN network.links : network.links[i].source \in CentralIds }

\* C5: every central grant has exactly one link from the central node, with the
\* grant's amount and year: there are as many central-sourced links as central
\* grants, in total and for every amount and year.
C5_OneLinkPerCentralGrant ==
    NetworkProduced =>
        /\ Cardinality(CentralLinks) = Len(CentralGrants)
        /\ \A g \in Range(CentralGrants) :
              Cardinality({ i \in CentralLinks :
                              /\ network.links[i].amount = g.amount
                              /\ network.links[i].year = g.year })
              = Cardinality({ i \in DOMAIN CentralGrants :
                                /\ CentralGrants[i].amount = g.amount
                                /\ CentralGrants[i].year = g.year })

\* the organizations of the dataset whose normalized name is that of the name
NameMatches(name) ==
    { i \in DOMAIN dataset.organizations :
        normalizeOrgName(dataset.organizations[i].val.name) = normalizeOrgName(name) }

HasCentralLink(target, g) ==
    \E i \in CentralLinks :
        /\ network.links[i].target = target
        /\ network.links[i].amount = g.amount
        /\ network.links[i].year = g.year

\* C6: a central grant without usable tax ID whose normalized name matches exactly
\* one organization of the dataset, one with a real tax ID, has its link to that
\* organization's key.
C6_UniqueNameMatchResolved ==
    NetworkProduced =>
        \A g \in Range(CentralGrants) :
            ( /\ HasNoUsableEIN(g.recipientEIN)
              /\ Cardinality(NameMatches(g.recipientName)) = 1
              /\ \A i \in NameMatches(g.recipientName) :
                    ~IsPlaceholderKey(dataset.organizations[i].key) )
            => \A i \in NameMatches(g.recipientName) :
                  HasCentralLink(dataset.organizations[i].key, g)

\* C7: two central grants without tax ID and without name match in the dataset, whose
\* recipients have the same normalized name, have their links to the same node.
C7_PlaceholderIdFromNormalizedName ==
    NetworkProduced =>
        \A g1, g2 \in Range(CentralGrants) :
            ( /\ HasNoUsableEIN(g1.recipientEIN) /\ NameMatches(g1.recipientName) = {}
              /\ HasNoUsableEIN(g2.recipientEIN) /\ NameMatches(g2.recipientName) = {}
              /\ normalizeOrgName(g1.recipientName) = normalizeOrgName(g2.recipientName) )
            => \E i \in DOMAIN network.nodes :
                  /\ HasCentralLink(network.nodes[i].id, g1)
                  /\ HasCentralLink(network.nodes[i].id, g2)

-----------------------------------------------------------------------------
(* Properties of a run *)

\* main holds the dataset that buildBidirectionalDataset returned
DatasetReturned ==
    \/ pc \in {"merge", "consolidate", "network", "writeNetwork", "writeDataset", "done"}
    \/ pc = "exited" /\ exitCause = "network-input"

\* the months whose batch this run has read, from the cache or from the archive
Loaded(m) ==
    \/ mpc[m] \in {"cached", "done"}
    \/ mpc[m] = "failed" /\ cache[m].present /\ cache[m].parses

\* the batches this run has read, in the order of the months
RECURSIVE BatchesInMonthOrder(_, _)
BatchesInMonthOrder(lo, hi) ==
    IF lo > hi THEN <<>>
    ELSE (IF Loaded(lo) THEN cache[lo].grants ELSE <<>>) \o BatchesInMonthOrder(lo + 1, hi)

DistinctFunders(records) == { records[i].funderEIN : i \in DOMAIN records } \ {<<>>}

RECURSIVE GrantsOfFunders(_)
GrantsOfFunders(records) ==
    IF records = <<>> THEN 0
    ELSE (IF Head(records).funderEIN # <<>> THEN Len(Head(records).grants) ELSE 0)
         + GrantsOfFunders(Tail(records))

\* C8: the counts of the built dataset depend on the set of monthly batches only, not on
\* the order the months of a chunk pushed them in: foundationsProcessed and totalGrants
\* are those of the builder run on the same batches in the order of the months (the
\* number of distinct funders and the number of their grants), and a run that reads the
\* cache entries the run before ended with gets the counts of the dataset that run built.
C8_CountsIndependentOfArrivalOrder ==
    DatasetReturned =>
        LET inMonthOrder == BatchesInMonthOrder(1, NumMonths)
            again == buildBidirectionalDataset(inMonthOrder).metadata
        IN  /\ dataset.metadata.foundationsProcessed = again.foundationsProcessed
            /\ dataset.metadata.totalGrants = again.totalGrants
            /\ dataset.metadata.foundationsProcessed
                 = Cardinality(DistinctFunders(inMonthOrder))
            /\ dataset.metadata.totalGrants = GrantsOfFunders(inMonthOrder)
            /\ (previous.built /\ previous.cache = cache)
                 => /\ dataset.metadata.foundationsProcessed
                         = previous.metadata.foundationsProcessed
                    /\ dataset.metadata.totalGrants = previous.metadata.totalGrants

\* a second run has built its dataset from the cache entries of the first, which had
\* pushed the same batches in another order; a funder has records in two batches
C8_Witness ==
    /\ run = 2
    /\ pc = "done"
    /\ previous.built
    /\ previous.cache = cache
    /\ previous.grants # allGrantsData
    /\ Len(allGrantsData) >= 2
    /\ dataset.metadata.foundationsProcessed < Len(allGrantsData)
    /\ dataset.metadata.totalGrants > 0

PositiveAndNamed(grant) == grant.amount > 0 /\ grant.recipientName # <<>>

AllPositiveAndNamed(records) ==
    \A i \in DOMAIN records :
        \A j \in DOMAIN records[i].grants : PositiveAndNamed(records[i].grants[j])

\* C9: every grant the grant-maker parser retained has an amount above zero and a
\* recipient name that is not empty: in the records pushed to allGrantsData, in every
\* cache entry, in every grantsGiven of the dataset; every grantsReceived entry has an
\* amount above zero and belongs to a named organization.
C9_RetainedGrantsPositiveAndNamed ==
    /\ AllPositiveAndNamed(allGrantsData)
    /\ \A m \in Months : cache[m].present => AllPositiveAndNamed(cache[m].grants)
    /\ \A i \in DOMAIN dataset.foundations :
          \A j \in DOMAIN dataset.foundations[i].val.grantsGiven :
              PositiveAndNamed(dataset.foundations[i].val.grantsGiven[j])
    /\ \A i \in DOMAIN dataset.organizations :
          LET org == dataset.organizations[i].val
          IN  \A j \in DOMAIN org.grantsReceived :
                  org.grantsReceived[j].amount > 0 /\ org.name # <<>>

\* a month is done whose first filing had recipient elements dropped and one retained,
\* and the dataset is built from it
C9_Witness ==
    /\ pc = "done"
    /\ dataset.organizations # <<>>
    /\ \E m \in Months :
          /\ mpc[m] = "done"
          /\ cache[m].grants # <<>>
          /\ Len(cache[m].grants[1].grants) >= 1
          /\ Len(cache[m].grants[1].grants) < Len(ArchiveOf(m).docs[1].grantSections)

\* the grants of the records of month m are in the dataset
InDataset(m) ==
    \A i \in DOMAIN cache[m].grants :
        LET rec == cache[m].grants[i]
        IN  rec.funderEIN # <<>> =>
              /\ ObjHas(dataset.foundations, rec.funderEIN)
              /\ Range(rec.grants)
                   \subseteq Range(ObjGet(dataset.foundations, rec.funderEIN).grantsGiven)

\* a month's task awaits its download, its extraction, its batches or its stream
InFlight(m) == mpc[m] \in {"downloading", "extracting", "parsing", "closing"}

\* a month's task of this run has ended in its catch
SomeMonthFailed == \E m \in Months : mpc[m] \in {"skipped", "failed"}

PastTheMonths ==
    pc \in {"build", "merge", "consolidate", "network", "writeNetwork", "writeDataset",
            "done"}

\* C10: a month that fails (not found, or any other error of its download, extraction
\* or closing) never ends the run: the process exits non-zero only when the network
\* builder misses its input, after the dataset was built; while a month of the chunk
\* is in flight the others have returned or are in flight, and once all have returned,
\* failed or not, main starts the next chunk or goes on to build the dataset; the
\* dataset is built only once every month of every chunk and year has returned; it
\* holds the grants of every month that did not fail; and a run that ends otherwise
\* ends with exit code 0 and both files written.
C10_MonthFailureNeverAbortsRun ==
    /\ exitCode = 1 => exitCause = "network-input" /\ ~NetworkInputPresent
    /\ pc = "exited" => exitCode = 1
    /\ pc \in {"start", "months"} =>
          IF chunk > 0 /\ \E m \in MonthsInChunk(chunk) : ~Finished(m)
          THEN \A m \in MonthsInChunk(chunk) : Finished(m) \/ InFlight(m)
          ELSE ENABLED (StartChunk \/ FinishMonths)
    /\ (PastTheMonths \/ pc = "exited") => \A m \in Months : Finished(m)
    /\ DatasetReturned => \A m \in Months : Loaded(m) => InDataset(m)
    /\ pc = "done" =>
          /\ exitCode = 0
          /\ networkFile = "written"
          /\ datasetFile = "written"

\* a month of the first chunk was not found, another month failed, a month of the
\* same chunk and a month of the later chunk are done, and the run has ended well
C10_Witness ==
    /\ pc = "done"
    /\ exitCode = 0
    /\ \E m1, m2 \in MonthsInChunk(1) : mpc[m1] = "skipped" /\ mpc[m2] = "done"
    /\ \E m3, m4 \in MonthsInChunk(2) : mpc[m3] = "done" /\ mpc[m4] = "failed"
    /\ dataset.metadata.totalGrants > 0

\* C11: an extraction that yields zero files is fatal to the run: the step in which a
\* month leaves its extraction with no file extracted ends the process with a non-zero
\* exit code, and neither the network file nor the dataset file is written.
C11_ZeroFileExtractionEndsRun ==
    [][ \A m \in Months :
          (mpc[m] = "extracting" /\ archive[m].docs = <<>> /\ mpc'[m] # "extracting")
            => /\ pc' = "exited"
               /\ exitCode' = 1
               /\ networkFile' = "absent"
               /\ datasetFile' = "absent" ]_vars

C13_DownloadFileAllOrNothing ==
    /\ dl.pos \in {"resolved", "rejected", "uncaught"} =>
          \/ /\ dl.pos = "resolved"
             /\ dl.file # NoFile
             /\ dl.declared > 0 => dl.file = dl.declared
          \/ /\ dl.pos = "rejected"
             /\ dl.error # "none"
             /\ dl.file = NoFile
    /\ (dl.pos = "requesting" \/ (dl.pos = "piping" /\ ~dl.opened)) => dl.file = NoFile

\* C14: extractZip fails if and only if zero files were extracted: for a month whose
\* archive is being extracted, whatever exit code unzip ends with, extractZip rejects
\* exactly when the archive put no file into the destination.
C14_ExtractZipFailsIffZeroFiles ==
    \A m \in Months :
        mpc[m] = "extracting" =>
            \A code \in UnzipCodes :
                extractZip(code, archive[m].docs # <<>>) = "rejected"
                    <=> archive[m].docs = <<>>

\* the records r lie in the sequence after, behind the first n of its elements
AppendedVerbatim(r, after, n) ==
    \E k \in n .. (Len(after) - Len(r)) : SubSeq(after, k + 1, k + Len(r)) = r

\* C15: a month whose cache entry exists when its processing starts is neither
\* downloaded nor extracted nor parsed and gets no working directory: its task goes
\* from idle to returned in the one step that appends the cached records (the records
\* JSON.parse reads from the entry, and then those of the month's Form 990 cache file),
\* as they are, to the aggregates of the run, and neither that step nor any later step
\* of the run changes the cache entry, puts an archive on disk for the month or
\* creates its working directory.
C15_CachedMonthDoesNoWork ==
    [][ \A m \in Months :
          /\ (mpc[m] = "idle" /\ cache[m].present /\ mpc'[m] # "idle")
                => /\ mpc'[m] = "cached"
                   /\ AppendedVerbatim(cache[m].grants, allGrantsData',
                                       Len(allGrantsData))
                   /\ (PROCESS_990 /\ cache[m].parses /\ orgCache[m].state = "complete")
                         => AppendedVerbatim(orgCache[m].orgs, allOrgData',
                                             Len(allOrgData))
                   /\ Len(allGrantsData')
                        = Len(allGrantsData)
                            + Len(CachedGrants(Min(MonthsInChunk(chunk')),
                                               Max(MonthsInChunk(chunk'))))
          /\ ((mpc[m] = "idle" /\ cache[m].present) \/ (mpc[m] = "cached" /\ run' = run))
                => /\ mpc'[m] \in {"idle", "cached"}
                   /\ cache'[m] = cache[m]
                   /\ orgCache'[m] = orgCache[m]
                   /\ archive'[m] = archive[m]
                   /\ (MonthDataDir(m) \in workdir') = (MonthDataDir(m) \in workdir)
                   /\ MonthDataDir(m) \notin workdir ]_vars

\* a second run has loaded a month from the cache entry the first run wrote: the
\* cached grant-maker records are in the aggregate and the month has no directory
C15_Witness ==
    /\ run = 2
    /\ \E m \in Months :
          /\ mpc[m] = "cached"
          /\ cache[m].grants # <<>>
          /\ AppendedVerbatim(cache[m].grants, allGrantsData, 0)
          /\ MonthDataDir(m) \notin workdir
          /\ archive[m] = NoArchive

\* C16: the cache grows by completed months only. A month whose task completed has a
\* grants cache entry that parses; a month whose task was skipped, failed at any step
\* or was cut off has none; no step changes an entry that exists; and when a month's
\* turn comes in a run, it is loaded from its entry if it has one (and then its Form 990
\* cache file is not one left half-written) and is downloaded again if it has none.
C16_CacheStrictlyIncremental ==
    [][ \A m \in Months :
          /\ mpc'[m] = "done" => (cache'[m].present /\ cache'[m].parses)
          /\ mpc'[m] \notin {"idle", "cached", "done"} => ~cache'[m].present
          /\ cache[m].present => cache'[m] = cache[m]
          /\ (mpc[m] = "idle" /\ mpc'[m] # "idle")
                => IF cache[m].present
                   THEN /\ mpc'[m] = "cached"
                        /\ cache[m].parses
                        /\ PROCESS_990 => orgCache[m].state # "open"
                   ELSE mpc'[m] = "downloading" ]_vars

\* C17: the working directory of a month whose task has ended, by success, by the
\* not-found skip or by a failure at any step, does not exist; a month in flight has
\* its directory, and two months in flight at the same time have different ones.
C17_WorkingDirectoryAlwaysRemoved ==
    /\ \A m \in Months :
          mpc[m] \in {"done", "skipped", "failed", "crashed"}
              => MonthDataDir(m) \notin workdir
    /\ \A m \in Months : (pc = "months" /\ InFlight(m)) => MonthDataDir(m) \in workdir
    /\ \A m1, m2 \in Months :
          (InFlight(m1) /\ InFlight(m2) /\ m1 # m2) => MonthDataDir(m1) # MonthDataDir(m2)

RECURSIVE ActiveParses(_)
\* the documents whose parse has started and not ended, over the months 1 .. m
ActiveParses(m) == IF m = 0 THEN 0 ELSE limiter[m].active + ActiveParses(m - 1)

\* C18: at every moment the number of documents being parsed, over all the months in
\* flight, is at most CONCURRENCY_LIMIT.
C18_ConcurrentParsesWithinLimit == ActiveParses(NumMonths) <= CONCURRENCY_LIMIT

\* the sequences that hold the elements of s in another order
Reorderings(s) ==
    { [i \in DOMAIN s |-> s[p[i]]] : p \in Permutations(DOMAIN s) }

\* the elements of a list with their numbers of occurrences
Multiset(s) ==
    [x \in { s[i] : i \in DOMAIN s } |-> Cardinality({ i \in DOMAIN s : s[i] = x })]

KeySet(obj) == { obj[i].key : i \in DOMAIN obj }

\* the same foundation keys and organization keys, and under each key the same grants
SameKeysAndGrants(a, b) ==
    /\ KeySet(a.foundations) = KeySet(b.foundations)
    /\ KeySet(a.organizations) = KeySet(b.organizations)
    /\ \A k \in KeySet(a.foundations) :
          Multiset(ObjGet(a.foundations, k).grantsGiven)
            = Multiset(ObjGet(b.foundations, k).grantsGiven)
    /\ \A k \in KeySet(a.organizations) :
          Multiset(ObjGet(a.organizations, k).grantsReceived)
            = Multiset(ObjGet(b.organizations, k).grantsReceived)

\* the dataset main ends with from the records in the given orders
FinalDataset(grantsData, orgData) ==
    LET built == buildBidirectionalDataset(grantsData)
    IN  IF PROCESS_990 /\ orgData # <<>>
        THEN Consolidated([built EXCEPT !.organizations = MergeOrgRecords(@, orgData)])
        ELSE built

\* the real tax IDs of the records, each with the normalized names the records give it
RealIdNames(grantsData, orgData) ==
    { <<grantsData[i].grants[j].recipientEIN,
        normalizeOrgName(grantsData[i].grants[j].recipientName)>> :
          <<i, j>> \in { <<i, j>> \in (DOMAIN grantsData) \X (1 .. 8) :
                           /\ grantsData[i].funderEIN # <<>>
                           /\ j \in DOMAIN grantsData[i].grants
                           /\ ~IsPlaceholderKey(RecipientKey(grantsData[i].grants[j])) } }
    \cup { <<orgData[i].ein, normalizeOrgName(orgData[i].name)>> :
             i \in { i \in DOMAIN orgData : orgData[i].ein # <<>> } }

\* several real tax IDs share one normalized name
SeveralRealCandidates(grantsData, orgData) ==
    \E p, q \in RealIdNames(grantsData, orgData) : p[2] = q[2] /\ p[1] # q[1]

\* C19: the dataset does not depend on the order of the records. The dataset that
\* buildBidirectionalDataset returned, and the dataset after the Form 990 merge and the
\* consolidation, have the foundation keys, the organization keys and under each key
\* the multiset of grants of the dataset built from the same records in any other
\* order, unless several real tax IDs share one normalized name.
C19_DatasetIndependentOfRecordOrder ==
    /\ pc = "merge"
          => \A g \in Reorderings(allGrantsData) :
                SameKeysAndGrants(dataset, buildBidirectionalDataset(g))
    /\ (pc = "network" /\ ~SeveralRealCandidates(allGrantsData, allOrgData))
          => \A g \in Reorderings(allGrantsData) :
                \A o \in Reorderings(allOrgData) :
                    SameKeysAndGrants(dataset, FinalDataset(g, o))

\* C20: the text of the dataset file is valid JSON and parses back to the dataset:
\* when main has ended after writing it, JSON.parse accepts the text and returns the
\* foundations, the organizations and the metadata of the dataset that was written.
C20_DatasetTextParsesBack ==
    pc = "done"
        => LET parsed == JSONparse(datasetText)
           IN  /\ parsed.ok
               /\ ObjKeys(parsed.val) = <<K_foundations, K_organizations, K_metadata>>
               /\ ObjGet(parsed.val, K_foundations) = dataset.foundations
               /\ ObjGet(parsed.val, K_organizations) = dataset.organizations
               /\ ObjGet(parsed.val, K_metadata) = dataset.metadata

-----------------------------------------------------------------------------
(* Properties of the parsing of a month's documents *)

\* a document whose reading or parsing throws
Throws(doc) == ~doc.wellFormed

\* the record document doc yields when it is the only document of a batch
RecordsAlone(doc, year, type) == DataOfType(<<ProcessDocument(doc, year)>>, type)

\* the records the documents yield one by one, those of the documents that throw left out
RECURSIVE RecordsOfOthers(_, _, _)
RecordsOfOthers(docs, year, type) ==
    IF docs = <<>> THEN <<>>
    ELSE (IF Throws(Head(docs)) THEN <<>> ELSE RecordsAlone(Head(docs), year, type))
         \o RecordsOfOthers(Tail(docs), year, type)

HasThrowingDocument(m) == \E i \in DOMAIN archive[m].docs : Throws(archive[m].docs[i])

\* C21: a filing document whose reading or parsing throws yields no record and nothing
\* else.  For a month whose archive holds such a document: the step of a run that ends
\* the batches (the Form 990 stream has not failed) leaves the month's task running (it
\* is closing the Form 990 stream) with, in the stream, exactly the Form 990 records the
\* other documents yield alone; and the step that ends the month caches and pushes
\* exactly the grant-maker records the other documents yield alone.
C21_ThrowingDocumentYieldsNothing ==
    [][\A m \in Months :
          HasThrowingDocument(m)
              => /\ (run' = run /\ mpc[m] = "parsing"
                        /\ mpc'[m] \notin {"parsing", "crashed"})
                     => /\ mpc'[m] = "closing"
                        /\ pc' = "months"
                        /\ orgCache'[m].orgs
                              = RecordsOfOthers(archive[m].docs, YearOf(m), "org")
                 /\ (mpc[m] = "closing" /\ mpc'[m] = "done")
                     => /\ cache'[m]
                              = PresentCache(RecordsOfOthers(archive[m].docs, YearOf(m), "pf"))
                        /\ allGrantsData'
                              = allGrantsData
                                \o RecordsOfOthers(archive[m].docs, YearOf(m), "pf")
                        /\ orgCache'[m].orgs
                              = RecordsOfOthers(archive[m].docs, YearOf(m), "org")]_vars

\* a month whose archive holds two documents that throw is cached with the grant-maker
\* record and the Form 990 record of the documents that follow them
C21_Witness ==
    \E m \in Months :
        /\ mpc[m] = "done"
        /\ \E i \in DOMAIN ArchiveOf(m).docs : Throws(ArchiveOf(m).docs[i])
        /\ cache[m].present /\ cache[m].grants # <<>>
        /\ orgCache[m].state = "complete" /\ orgCache[m].orgs # <<>>

-----------------------------------------------------------------------------
(* Properties of the loop over the years and the chunks *)

TasksInFlight == { ym \in YearMonths : loop.task[ym] = "inFlight" }

\* the fixed groups of months of a year
GroupsOfThree == { {1, 2, 3}, {4, 5, 6}, {7, 8, 9}, {10, 11, 12} }

SameGroup(a, b) == a[1] = b[1] /\ \E g \in GroupsOfThree : a[2] \in g /\ b[2] \in g

\* a is a month of an earlier group or of an earlier year than b
InEarlierGroup(a, b) ==
    \/ a[1] < b[1]
    \/ a[1] = b[1] /\ a[2] < b[2] /\ ~SameGroup(a, b)

\* C22: months are processed in fixed groups of at most three.  At any moment at most
\* three months are in flight and they are of the same year and group; a month has
\* started only if every month of every earlier group and year has returned (from its
\* cache, its try or its catch); and the dataset is built only after every month of
\* every year has returned.
C22_MonthsInFixedGroups ==
    /\ Cardinality(TasksInFlight) <= 3
    /\ \A a, b \in TasksInFlight : SameGroup(a, b)
    /\ \A a, b \in YearMonths :
          InEarlierGroup(a, b) /\ loop.task[b] # "idle" => loop.task[a] = "returned"
    /\ loop.pos = "build" => \A ym \in YearMonths : loop.task[ym] = "returned"

\* three months of the last group of the second year are in flight after a month of an
\* earlier group has ended in its catch
C22_Witness ==
    /\ loop.pos = "awaiting"
    /\ loop.year = 2 /\ loop.chunkStart = 10
    /\ Cardinality(TasksInFlight) = 3
    /\ loop.outcome = "failed"

-----------------------------------------------------------------------------
(* Properties of the Dataset Builder *)

\* a recipient tax ID the builder takes as it is: it does not start with 'unknown_'
WellFormedTaxID(ein) == ~startsWith(ein, UNKNOWN_)

\* the Organization a grant is to be found under
ExpectedKey(grant) ==
    IF grant.recipientEIN # <<>> /\ WellFormedTaxID(grant.recipientEIN)
    THEN grant.recipientEIN
    ELSE NO_EIN_ \o normalizeOrgName(grant.recipientName)

\* the grantsReceived entries of the grants of one record that belong under key k
RECURSIVE EntriesOfGrants(_, _, _)
EntriesOfGrants(rec, grants, k) ==
    IF grants = <<>> THEN <<>>
    ELSE (IF ExpectedKey(Head(grants)) = k
          THEN <<ReceivedEntry(rec.funderEIN, rec.funderName,
                               Head(grants).amount, Head(grants).year)>>
          ELSE <<>>)
         \o EntriesOfGrants(rec, Tail(grants), k)

\* one entry for each grant of each record with a funder ID, in the order of the input
RECURSIVE EntriesOfRecords(_, _)
EntriesOfRecords(grantsData, k) ==
    IF grantsData = <<>> THEN <<>>
    ELSE (IF Head(grantsData).funderEIN # <<>>
          THEN EntriesOfGrants(Head(grantsData), Head(grantsData).grants, k)
          ELSE <<>>)
         \o EntriesOfRecords(Tail(grantsData), k)

ExpectedKeys(grantsData) ==
    UNION { { ExpectedKey(grantsData[i].grants[j]) : j \in DOMAIN grantsData[i].grants } :
              i \in { r \in DOMAIN grantsData : grantsData[r].funderEIN # <<>> } }

RECURSIVE SumGiven(_)
SumGiven(foundations) ==
    IF foundations = <<>> THEN 0
    ELSE Len(Head(foundations).val.grantsGiven) + SumGiven(Tail(foundations))

RECURSIVE GivenBy(_, _)
GivenBy(grantsData, F) ==
    IF grantsData = <<>> THEN <<>>
    ELSE (IF Head(grantsData).funderEIN = F THEN Head(grantsData).grants ELSE <<>>)
         \o GivenBy(Tail(grantsData), F)

\* the first record of funder F
FirstRecordOf(grantsData, F) ==
    grantsData[Min({ i \in DOMAIN grantsData : grantsData[i].funderEIN = F })]

\* C24: a Foundation entry is merged by identity and never overwritten.  The build
\* leaves one Foundation for each funder ID of the input and none else (a record
\* without funder ID contributes nothing); its grantsGiven is the concatenation, in
\* input order, of the grants of the records of that funder, its name and metadata are
\* those of the funder's first record; and no later step of main changes a Foundation.
C24_FoundationMergedByIdentity ==
    [][/\ pc = "build"
          => LET fs == dataset'.foundations
             IN  /\ KeySet(fs) = DistinctFunders(allGrantsData)
                 /\ \A i, j \in DOMAIN fs : fs[i].key = fs[j].key => i = j
                 /\ \A i \in DOMAIN fs :
                       LET first == FirstRecordOf(allGrantsData, fs[i].key)
                       IN  /\ fs[i].val.ein = fs[i].key
                           /\ fs[i].val.grantsGiven = GivenBy(allGrantsData, fs[i].key)
                           /\ fs[i].val.name = first.funderName
                           /\ fs[i].val.metadata = first.metadata
       /\ pc \in {"merge", "consolidate", "network", "writeNetwork", "writeDataset"}
          => dataset'.foundations = dataset.foundations]_vars

\* main has ended with a dataset built from two records of one funder that differ in
\* the funder's name, and a record without funder ID
C24_Witness ==
    /\ pc = "done"
    /\ \E i \in DOMAIN allGrantsData : allGrantsData[i].funderEIN = <<>>
    /\ \E i, j \in DOMAIN allGrantsData :
          /\ i < j
          /\ allGrantsData[i].funderEIN = allGrantsData[j].funderEIN
          /\ allGrantsData[i].funderEIN # <<>>
          /\ allGrantsData[i].funderName # allGrantsData[j].funderName
          /\ ObjGet(dataset.foundations, allGrantsData[i].funderEIN).name
                = allGrantsData[i].funderName
          /\ Len(ObjGet(dataset.foundations, allGrantsData[i].funderEIN).grantsGiven) >= 2

-----------------------------------------------------------------------------
(* Properties of the Network Builder in override-identity mode *)

\* the candidates the index holds for a recipient name, in index order
Candidates(name) ==
    LET nameIndex == buildNameToEINIndex(dataset)
    IN  IF MapHas(nameIndex, normalizeOrgName(name))
        THEN MapGet(nameIndex, normalizeOrgName(name)) ELSE <<>>

\* candidate c has metadata whose city and state are those of the grant's recipient
AddressMatches(c, grant) ==
    LET org == ObjGet(dataset.organizations, c)
    IN  /\ org.metadata.present
        /\ toLowerCase(org.metadata.city) = toLowerCase(grant.recipientCity)
        /\ toLowerCase(org.metadata.state) = toLowerCase(grant.recipientState)

\* the candidate the rule of the claim names
CandidateByAddress(grant) ==
    LET candidates == Candidates(grant.recipientName)
        hits == { i \in DOMAIN candidates : AddressMatches(candidates[i], grant) }
    IN  IF grant.recipientCity # <<>> /\ grant.recipientState # <<>> /\ hits # {}
        THEN candidates[Min(hits)]
        ELSE candidates[1]

\* the grants of the central foundation that match several candidates by name
AmbiguousCentralGrants ==
    { g \in Range(ObjGet(dataset.foundations, customEIN).grantsGiven) :
        HasNoUsableEIN(g.recipientEIN) /\ Len(Candidates(g.recipientName)) > 1 }

\* the link of grant g from the central node goes to the candidate the rule names
ChosenByAddress(g) == HasCentralLink(CandidateByAddress(g), g)

\* C25: in override-identity mode, a central grant without usable tax ID that matches
\* several candidates by normalized name is linked to the first candidate, in index
\* order, whose metadata city and state equal the grant's (case-insensitively), and to
\* the first candidate of the index when the grant has no city or state or no
\* candidate matches on both; and the candidate chosen has a real tax ID whenever a
\* candidate with a real tax ID is among the candidates.
C25_AmbiguousRecipientByAddress ==
    (NetworkProduced /\ customEIN # <<>>)
        => \A g \in AmbiguousCentralGrants :
              /\ ChosenByAddress(g)
              /\ (\E i \in DOMAIN Candidates(g.recipientName) :
                     ~IsPlaceholderKey(Candidates(g.recipientName)[i]))
                   => ~IsPlaceholderKey(CandidateByAddress(g))

-----------------------------------------------------------------------------
(* Properties of the other funders of a network *)

\* the tax ID of the central entity, and the id of its node
CentralEIN == IF customEIN # <<>> THEN customEIN ELSE HLF_EIN

CentralId == IF customEIN # <<>> THEN customEIN ELSE HLF_ID

\* the organizations of the dataset that are grantees of the central node
ResolvedGrantees ==
    { i \in DOMAIN dataset.organizations :
        HasLink(CentralId, dataset.organizations[i].key) }

OtherFunderLinks(e, target) ==
    { i \in DOMAIN network.links :
        /\ network.links[i].type = "other-funder"
        /\ network.links[i].source = e.funderEIN
        /\ network.links[i].target = target
        /\ network.links[i].amount = e.amount
        /\ network.links[i].year = e.year }

\* the entries of a grantee that agree with e in funder, amount and year
EntriesLike(e, grantsReceived) ==
    { j \in DOMAIN grantsReceived :
        /\ grantsReceived[j].funderEIN = e.funderEIN
        /\ grantsReceived[j].amount = e.amount
        /\ grantsReceived[j].year = e.year }

NodesOf(id) == { n \in DOMAIN network.nodes : network.nodes[n].id = id }

\* C26: for every resolved grantee and every grantsReceived entry of it whose funder is
\* not the central entity, the network holds one funder-to-grantee link of that amount
\* and year per such entry, and exactly one node for the funder; and no link of type
\* 'other-funder' starts at the central entity, in either mode.
C26_OtherFundersOfGrantees ==
    NetworkProduced
        => /\ \A i \in ResolvedGrantees :
                 LET org == dataset.organizations[i]
                 IN  \A e \in Range(org.val.grantsReceived) :
                        e.funderEIN # CentralEIN
                            => /\ Cardinality(OtherFunderLinks(e, org.key))
                                    = Cardinality(EntriesLike(e, org.val.grantsReceived))
                               /\ Cardinality(NodesOf(e.funderEIN)) = 1
           /\ \A l \in DOMAIN network.links :
                 network.links[l].type = "other-funder"
                     => network.links[l].source \notin {CentralEIN, CentralId}

\* a network in which one other funder has links to two grantees, one of which also
\* holds a grant of the central entity in its grantsReceived
C26_Witness ==
    /\ NetworkProduced
    /\ \E i, j \in DOMAIN network.links :
          /\ network.links[i].type = "other-funder"
          /\ network.links[j].type = "other-funder"
          /\ network.links[i].source = network.links[j].source
          /\ network.links[i].target # network.links[j].target
          /\ Cardinality(NodesOf(network.links[i].source)) = 1
    /\ \E i \in ResolvedGrantees :
          \E e \in Range(dataset.organizations[i].val.grantsReceived) :
              e.funderEIN = CentralEIN

-----------------------------------------------------------------------------
(* Properties of the classification of the documents *)

\* a document recognised as a grant-maker filing
IsGrantMakerFiling(doc) == doc.root = "IRS990PF"

\* the kind of record a document is to contribute: "pf", "org" or "none"
KindOf(doc, year) ==
    IF IsGrantMakerFiling(doc)
    THEN IF doc.wellFormed
            /\ GrantsOfSections(doc.grantSections,
                                parseInt(Or(doc.TaxYr, NatToString(year)))) # <<>>
         THEN "pf" ELSE "none"
    ELSE IF doc.root = "IRS990" /\ doc.wellFormed /\ PROCESS_990 THEN "org" ELSE "none"

\* the tax IDs of the documents of the given kind, in the order of the documents
FilersOfKind(docs, year, kind) ==
    LET kept == SelectSeq(docs, LAMBDA d : KindOf(d, year) = kind)
    IN  [i \in DOMAIN kept |-> kept[i].EIN]

\* the months whose records a dataset is built from
MonthsWithRecords == { m \in Months : cache[m].present /\ cache[m].parses }

\* C27: each filing document contributes at most one record of at most one kind.  The
\* grants cache of a month holds one record for each of its grant-maker filings with a
\* retained grant, each with its grants, and nothing else; the Form 990 cache holds one
\* record for each beneficiary-only filing and none for a grant-maker filing; so, once
\* the dataset is built, every Foundation has a grant in grantsGiven and is the filer of
\* a grant-maker filing with a retained grant, and metadata of an Organization comes
\* from a beneficiary-only filing.
C27_OneRecordOfOneKindPerDocument ==
    /\ \A m \in MonthsWithRecords :
          /\ [i \in DOMAIN cache[m].grants |-> cache[m].grants[i].funderEIN]
                = FilersOfKind(ArchiveOf(m).docs, YearOf(m), "pf")
          /\ \A i \in DOMAIN cache[m].grants : cache[m].grants[i].grants # <<>>
    /\ \A m \in Months :
          orgCache[m].state = "complete"
              => [i \in DOMAIN orgCache[m].orgs |-> orgCache[m].orgs[i].ein]
                    = FilersOfKind(ArchiveOf(m).docs, YearOf(m), "org")
    /\ DatasetBuilt
          => /\ \A i \in DOMAIN dataset.foundations :
                   /\ dataset.foundations[i].val.grantsGiven # <<>>
                   /\ \E m \in Months :
                         dataset.foundations[i].key
                            \in Range(FilersOfKind(ArchiveOf(m).docs, YearOf(m), "pf"))
             /\ \A i \in DOMAIN dataset.organizations :
                   dataset.organizations[i].val.metadata.present
                      => \E m \in Months :
                            dataset.organizations[i].key
                               \in Range(FilersOfKind(ArchiveOf(m).docs, YearOf(m), "org"))

\* a run has ended whose dataset holds the records of a month with a grant-maker filing
\* without retained grant: its filer is neither a Foundation nor an Organization
C27_Witness ==
    /\ pc = "done"
    /\ \E m \in MonthsWithRecords :
          /\ mpc[m] \in {"done", "cached"}
          /\ cache[m].grants # <<>>
          /\ \E i \in DOMAIN ArchiveOf(m).docs :
                LET doc == ArchiveOf(m).docs[i]
                IN  /\ IsGrantMakerFiling(doc) /\ doc.wellFormed
                    /\ KindOf(doc, YearOf(m)) = "none"
                    /\ ~ObjHas(dataset.foundations, doc.EIN)
                    /\ ~ObjHas(dataset.organizations, doc.EIN)

-----------------------------------------------------------------------------
(* Properties of the merge of the Form 990 records *)

\* the Form 990 records with the tax ID ein, in the order of allOrgData
RecordsOfEIN(ein) == SelectSeq(allOrgData, LAMBDA org : org.ein = ein)

\* C28: merging the Form 990 records never changes the grant graph.  The step that
\* merges them leaves the foundations, totalGrants and the grantsReceived and the name of
\* every Organization as they were; an Organization it adds has the tax ID and the name
\* of the first record with that tax ID and an empty grantsReceived; and the metadata of
\* an Organization is the one it had, if it had one, else the one of the first record
\* with its tax ID, if there is one.
C28_Merge990KeepsGrantGraph ==
    [][ pc = "merge" /\ pc' = "consolidate"
        => LET before == dataset.organizations
               after == dataset'.organizations
           IN  /\ dataset'.foundations = dataset.foundations
               /\ dataset'.metadata = dataset.metadata
               /\ \A i \in DOMAIN before :
                     /\ ObjHas(after, before[i].key)
                     /\ LET was == before[i].val
                            is == ObjGet(after, before[i].key)
                            recs == RecordsOfEIN(before[i].key)
                        IN  /\ is.grantsReceived = was.grantsReceived
                            /\ is.name = was.name
                            /\ is.ein = was.ein
                            /\ is.metadata = IF was.metadata.present \/ recs = <<>>
                                             THEN was.metadata
                                             ELSE Head(recs).metadata
               /\ \A i \in DOMAIN after :
                     ~ObjHas(before, after[i].key)
                        => LET recs == RecordsOfEIN(after[i].key)
                           IN  /\ after[i].key # <<>>
                               /\ recs # <<>>
                               /\ after[i].val = [ein |-> after[i].key,
                                                  name |-> Head(recs).name,
                                                  grantsReceived |-> <<>>,
                                                  metadata |-> Head(recs).metadata]
               /\ \A j \in DOMAIN allOrgData :
                     allOrgData[j].ein # <<>> => ObjHas(after, allOrgData[j].ein)
               /\ Len(ObjKeys(after)) = Cardinality(Range(ObjKeys(after)))
      ]_vars

\* the records have been merged: two of them have the tax ID of a recipient of a grant
\* and differ in their metadata, and the Organization has the metadata of the first
C28_Witness ==
    /\ pc = "consolidate"
    /\ \E i, j \in DOMAIN allOrgData :
          /\ i < j
          /\ allOrgData[i].ein = allOrgData[j].ein
          /\ allOrgData[i].metadata # allOrgData[j].metadata
          /\ ObjHas(dataset.organizations, allOrgData[i].ein)
          /\ LET o == ObjGet(dataset.organizations, allOrgData[i].ein)
             IN  /\ o.grantsReceived # <<>>
                 /\ o.metadata = allOrgData[i].metadata

-----------------------------------------------------------------------------
(* Properties of the nodes and the links of a network *)

\* C29: every produced network is well-formed.  The source and the target of every link
\* each identify exactly one node, and no two nodes share an id.
C29_NetworkWellFormed ==
    NetworkProduced
        => /\ \A l \in DOMAIN network.links :
                 /\ Cardinality(NodesOf(network.links[l].source)) = 1
                 /\ Cardinality(NodesOf(network.links[l].target)) = 1
           /\ \A a, b \in DOMAIN network.nodes :
                 network.nodes[a].id = network.nodes[b].id => a = b

-----------------------------------------------------------------------------
(* Properties of the serving endpoint *)

\* the step answers a request
Answers == server'.response.seq = server.response.seq + 1

CacheKept ==
    /\ server'.grantsDataCache = server.grantsDataCache
    /\ server'.cacheTimestamp = server.cacheTimestamp

\* the age of the cached value at the time of the step
CacheAge == server.now - server.cacheTimestamp

\* C30: the endpoint answers from its in-memory cache only while the cached value is
\* younger than the expiry of one hour, and then with the cached value; otherwise it
\* loads the bundled local copy, and starts the remote load only if there is no local
\* copy; an answer of a successful load carries the loaded value, which is stored in the
\* cache with the time of the load; and a failed load is answered with status 500 and
\* leaves the cached value and its timestamp as they were.
C30_CacheLocalRemote ==
    [][ /\ Answers /\ server'.response.from = "cache"
           => /\ server.grantsDataCache # "null"
              /\ CacheAge < 60 * 60 * 1000
              /\ server'.response.status = 200
              /\ server'.response.body = server.grantsDataCache
              /\ CacheKept
        /\ Answers /\ server'.response.from # "cache"
           => ~(server.req[server'.response.req] = "none"
                /\ server.grantsDataCache # "null" /\ server.cacheTimestamp # 0
                /\ CacheAge < 60 * 60 * 1000)
        /\ Answers /\ server'.response.from = "local"
           => /\ server.local # "absent"
              /\ server.req[server'.response.req] = "none"
        /\ (\E r \in Requests : server.req[r] = "none" /\ server'.req[r] = "fetching")
           => /\ server.local = "absent"
              /\ ~(server.grantsDataCache # "null" /\ CacheAge < 60 * 60 * 1000)
              /\ CacheKept
        /\ Answers /\ server'.response.from = "remote"
           => /\ server.local = "absent"
              /\ server.req[server'.response.req] \in {"fetching", "parsing"}
        /\ Answers /\ server'.response.status = 200 /\ server'.response.from # "cache"
           => /\ server'.grantsDataCache = server'.response.body
              /\ server'.cacheTimestamp = server.now
              /\ server'.response.body # "error"
        /\ Answers /\ server'.response.status # 200
           => /\ server'.response.status = 500
              /\ server'.response.body = "error"
              /\ CacheKept
        /\ ~Answers => CacheKept
      ]_vars

\* a request has been answered from the cache one millisecond before the expiry of a
\* value loaded from the remote copy, after a failed load had left the cache as it was
C30_Witness ==
    /\ server.response.from = "cache"
    /\ server.response.status = 200
    /\ server.response.body = "remoteGraph"
    /\ server.now - server.cacheTimestamp = CACHE_DURATION - 1
    /\ \E r \in Requests : server.req[r] = "fetching"

=============================================================================
